---- MODULE Spec2Model ----
(***************************************************************************)
(* Model of the ConversationManager of the browser extension               *)
(* (background/conversation-manager.ts, latest revision): the process-wide *)
(* conversations Map, the runs of streamResponse started by                *)
(* startConversation, and the polling interface getUpdates / abort /       *)
(* cleanup.                                                                *)
(*                                                                         *)
(* The AI SDK (streamText) is the environment.  What the code consumes     *)
(* from it is the fullStream of chunks, and result.steps.  The environment *)
(* is modelled by what the code can observe: any chunk may arrive while    *)
(* the run's signal is not aborted, a tool that is executing still         *)
(* delivers its result after an abort (no tool reads the signal), and      *)
(* the iteration may throw at any await.                                   *)
(*                                                                         *)
(* The second part is the ScriptExecutionManager                           *)
(* (background/script-execution-manager.ts), the table of JavaScript       *)
(* executions the execute_javascript tool queues for a tab and the content *)
(* script of that tab polls, executes and reports back.                    *)
(***************************************************************************)
EXTENDS Integers, Sequences, FiniteSets, TLC

\* ---------------------------------------------------------------- bounds
ConvIds == {"c1"}
Prompts == {"p"}
TabIds == {1}
Deltas == {"a"}
Results == {"ok", "error"}   \* a tool result without / with an error field
ScriptTabs == {1, 2}
Codes == {"s"}
RequestIds == {"r1", "r2"}   \* webRequest requestIds
Urls == {"u"}
BufferUrls == {"u", "v"}     \* the URLs of a request and of its redirect
Indices == {0, 1}            \* SSE index of a content block
ToolNames == {"f", "g"}
Fragments == {<<"{">>, <<"}">>}   \* partial_json values, as character lists
Limits == (0 - 2)..22        \* the limit argument of get_network_requests
Offsets == 0..3              \* its offset argument
ClientTypes == {"chrome", "vscode"}
RelayTypes == {"chrome-data", "vscode-command", "other"}
CallIds == {1, 2}            \* toolCallIds of prompt parts
StopReasons == {"none", "end_turn", "tool_use"}

MaxRuns == 2      \* startConversation calls in one behaviour
MaxChunks == 2    \* chunks the runs of one behaviour push from the stream
MaxExecs == 2     \* queueScriptExecution calls in one behaviour
MaxEvents == 6    \* SSE records doStream consumes in one behaviour
MaxEntries == 22  \* entries cached for the tab
MaxSockets == 2   \* connections the relay server accepts
MaxRelay == 3     \* messages sent to one connection
MaxPieces == 4    \* writes of the server to the response body
MaxRead == 32     \* bytes one reader.read() returns at most
MaxMsgs == 3      \* messages of a prompt
MaxBody == 3      \* characters of a cached body
MaxPages == 4     \* get_request_body_chunk calls of one pagination
MaxPolls == 2     \* getPendingScript calls that hand out an execution
HistLens == {10}   \* lengths of the stored history SpecHistory starts from

MAX_HISTORY_MESSAGES == 10

Terminal == {"completed", "error", "aborted"}

\* ---------------------------------------------------------------- state
VARIABLES
    conversations,  \* Map<string, ConversationState>; status "absent" = no entry
    runs,           \* the streamResponse invocations, in start order, with
                    \* their locals; run r owns AbortController r; nnotool
                    \* and nfail are history fields: the no-such-tool error
                    \* chunks the run has pushed, and the number of error
                    \* results its tool has returned in a row
    aborted,        \* AbortControllers of runs in flight whose abort() was called
    emitted,        \* history: the chunks pushed to the record since the last
                    \* startConversation on it, in push order
    delivered,      \* history: concatenation of the chunk lists getUpdates has
                    \* returned since the last startConversation
    pushes,         \* history: number of chunks the runs have pushed from the
                    \* stream (the finish and catch-block chunks not counted)
    pendingExecutions,  \* Map<string, PendingScriptExecution>, keyed by id
    executionQueue,     \* Map<number, string[]>: tabId -> ids, in queue order
    idCounter,          \* the ids are 1, 2, ... in creation order
    timers,             \* the armed 30-second timers: id -> the tabId in the
                        \* closure of the callback
    settled,            \* history: for each id created, the promise callbacks
                        \* (resolve / reject) invoked so far, in order
    handed,             \* history: the ids getPendingScript has returned
    lastReturn,         \* the call made in the last step and what it returned
    awaiting,           \* tool call id -> id of the script execution the
                        \* execute_javascript call is awaiting
    pendingRequests,    \* webrequest-buffer: Map requestId -> PendingRequest
    urlIndex,           \* webrequest-buffer: Map "url|tabId" -> Set<requestId>
    toolCalls,   \* provider doStream: Map index -> {id, name, argsText}
    enqueued,   \* provider doStream: the stream parts enqueued, in order
    blocks,   \* history: index -> the tool_use block the wire has open there
    nread,   \* history: number of SSE records doStream has consumed
    streamState,   \* provider doStream: "open", "closed" or "errored"
    tabCache,   \* cache-state: the ids of the entries cached for the tab, in insertion order
    netResult,   \* the last get_network_requests call: its arguments and what it returned
    sockets,   \* ws-server: the connections accepted, with the clientType of their closure, their readyState and (history) what was sent to them
    clients,   \* ws-server: Map clientType -> Set<WebSocket>
    lastMsg,   \* history: the message the server handled in the last step
    inflight,   \* the bytes the server has written and reader.read() has not returned yet
    wire,   \* history: the bytes reader.read() has returned so far
    written,   \* history: number of writes of the server
    decoderPending,   \* parseSSE: the bytes the TextDecoder holds back
    buffer,   \* parseSSE: the local buffer
    currentEvent,   \* parseSSE: the local currentEvent
    yielded,   \* parseSSE: the records yielded, in order
    lastCut,   \* history: the last read found a partial line in the buffer
    stopSeen,   \* history: a message_stop record has been consumed
    prompt,   \* provider: the message list (options.prompt) of the next doStream call
    outbound,   \* provider: the last result of convertMessagesToAnthropic
    chunkBody,   \* the body of the cached request the chunk tool reads
    chunkResult,   \* what the last get_request_body_chunk call returned
    pages    \* the results of the pagination in progress, in order

cvars == <<conversations, runs, aborted, emitted, delivered, pushes>>

svars == <<pendingExecutions, executionQueue, idCounter, timers, settled,
           handed, lastReturn>>

\* the webRequest buffer, and the model provider's doStream
wvars == <<pendingRequests, urlIndex>>
pvars == <<toolCalls, enqueued, blocks, nread, streamState, stopSeen>>

\* the tab's network cache with the get_network_requests tool
nvars == <<tabCache, netResult>>

\* the WebSocket relay server
rvars == <<sockets, clients, lastMsg>>

\* parseSSE and the response body it reads
evars == <<inflight, wire, written, decoderPending, buffer, currentEvent,
           yielded, lastCut>>

\* the prompt handed to the provider and its conversion
mvars == <<prompt, outbound>>

\* the get_request_body_chunk tool and the body it reads
bvars == <<chunkBody, chunkResult, pages>>

\* ovars without one of the groups
outW == <<pvars, nvars, rvars, evars, mvars, bvars>>
outP == <<wvars, nvars, rvars, evars, mvars, bvars>>
outN == <<wvars, pvars, rvars, evars, mvars, bvars>>
outR == <<wvars, pvars, nvars, evars, mvars, bvars>>
outE == <<wvars, pvars, nvars, rvars, mvars, bvars>>
outM == <<wvars, pvars, nvars, rvars, evars, bvars>>
outB == <<wvars, pvars, nvars, rvars, evars, mvars>>

\* the state outside the ConversationManager and the ScriptExecutionManager
ovars == <<pendingRequests, urlIndex,
          toolCalls,
          enqueued,
          blocks,
          nread,
          streamState,
          tabCache,
          netResult,
          sockets,
          clients,
          lastMsg,
          inflight,
          wire,
          written,
          decoderPending,
          buffer,
          currentEvent,
          yielded,
          lastCut,
          stopSeen,
          prompt,
          outbound,
          chunkBody,
          chunkResult,
          pages>>

vars == <<conversations, runs, aborted, emitted, delivered, pushes,
          pendingExecutions, executionQueue, idCounter, timers, settled,
          handed, lastReturn, awaiting, pendingRequests, urlIndex,
          toolCalls,
          enqueued,
          blocks,
          nread,
          streamState,
          tabCache,
          netResult,
          sockets,
          clients,
          lastMsg,
          inflight,
          wire,
          written,
          decoderPending,
          buffer,
          currentEvent,
          yielded,
          lastCut,
          stopSeen,
          prompt,
          outbound,
          chunkBody,
          chunkResult,
          pages>>

\* ---------------------------------------------------------------- helpers
Last(s) == s[Len(s)]
Front(s) == SubSeq(s, 1, Len(s) - 1)

NoState ==
    [status |-> "absent", chunks |-> <<>>, fullText |-> <<>>,
     abortController |-> 0, tabId |-> 0, messages |-> <<>>]

Has(c) == conversations[c].status # "absent"

EmptyStep == [text |-> FALSE, toolCalls |-> <<>>, toolResults |-> <<>>]

UserMessage(p, r) ==
    [role |-> "user", content |-> <<p>>, parts |-> <<>>, run |-> r]

\* Array.prototype.join calls toString on every element; the elements are
\* plain objects.
ObjectToString(part) == "[object Object]"

JoinParts(parts) == [i \in 1..Len(parts) |-> ObjectToString(parts[i])]

\* The array assistantContent built for one step.
AssistantContent(step) ==
    (IF step.text THEN <<[type |-> "text", toolCallId |-> 0]>> ELSE <<>>)
    \o [i \in 1..Len(step.toolCalls) |->
            [type |-> "tool-call", toolCallId |-> step.toolCalls[i]]]
    \o [i \in 1..Len(step.toolResults) |->
            [type |-> "tool-result", toolCallId |-> step.toolResults[i]]]

AssistantMessage(step, r) ==
    [role |-> "assistant", content |-> JoinParts(AssistantContent(step)),
     parts |-> AssistantContent(step), run |-> r]

\* The loop over result.steps: one assistant message per non-empty step.
RECURSIVE PushSteps(_, _, _)
PushSteps(ms, steps, r) ==
    IF steps = <<>> THEN ms
    ELSE PushSteps(
            IF Len(AssistantContent(Head(steps))) > 0
            THEN Append(ms, AssistantMessage(Head(steps), r))
            ELSE ms,
            Tail(steps), r)

\* Mutant: the slice keeps one entry too many.
TrimHistoryOffByOne(ms) ==
    IF Len(ms) > MAX_HISTORY_MESSAGES
    THEN SubSeq(ms, Len(ms) - MAX_HISTORY_MESSAGES, Len(ms))
    ELSE ms

\* Mutant: slice(0, MAX_HISTORY_MESSAGES), which keeps the oldest entries.
TrimHistoryKeepsFirst(ms) ==
    IF Len(ms) > MAX_HISTORY_MESSAGES
    THEN SubSeq(ms, 1, MAX_HISTORY_MESSAGES)
    ELSE ms

\* state.messages.slice(-MAX_HISTORY_MESSAGES) when longer than the bound.
TrimHistory(ms) ==
    IF Len(ms) > MAX_HISTORY_MESSAGES
    THEN SubSeq(ms, Len(ms) - MAX_HISTORY_MESSAGES + 1, Len(ms))
    ELSE ms

\* Mutant: the catch block leaves the history as it is.
PopNothing(ms) == ms

\* The catch block's removal of the unprocessed user message.
PopUnprocessedUser(ms) ==
    IF Len(ms) > 0 /\ Last(ms).role = "user" THEN Front(ms) ELSE ms

\* A StreamChunk.  data holds the text of a text-delta or error chunk,
\* toolCallId the id of a tool-call or tool-result chunk (0 otherwise); seq
\* is a history field, the position of the chunk in the push order since the
\* last startConversation (it stands for the timestamp).
Chunk(type, data, id, n) ==
    [type |-> type, data |-> data, toolCallId |-> id, seq |-> n]

\* ---------------------------------------------------------------- Init
EmptyMap == [x \in {} |-> 0]

\* lastReturn after a step that is no call of the manager's interface (for
\* getPendingScript ret tells whether an execution was returned, and handed
\* has its id).
NoCall == [op |-> "none", arg |-> 0, ret |-> FALSE]

\* The ScriptExecutionManager singleton after construction.
InitScript ==
    /\ pendingExecutions = EmptyMap
    /\ executionQueue = EmptyMap
    /\ idCounter = 0
    /\ timers = EmptyMap
    /\ settled = <<>>
    /\ handed = <<>>
    /\ lastReturn = NoCall

\* An optional numeric tool argument that is not given / given as n.
NoArg == [given |-> FALSE, val |-> 0]
Arg(n) == [given |-> TRUE, val |-> n]

\* netResult before the first get_network_requests call
NoNetCall ==
    [called |-> FALSE, limit |-> NoArg, offset |-> NoArg, total |-> 0,
     returned |-> 0, hasMore |-> FALSE, requests |-> <<>>]

\* outbound before the first conversion
NoConversion == [done |-> FALSE, messages |-> <<>>]

\* lastMsg after a step that handles no message
NoMsg == [from |-> 0, type |-> "none"]

\* no cached body yet; no get_request_body_chunk call yet
NoBody == [found |-> FALSE, body |-> <<>>]
Null == [null |-> TRUE, val |-> 0]
NoChunkCall == [error |-> "none", length |-> NoArg, offset |-> 0,
                chunkSize |-> 0, totalSize |-> 0, hasMore |-> FALSE,
                nextOffset |-> Null, chunk |-> <<>>]

\* The other modules of the background script after loading.
InitOther ==
    /\ pendingRequests = EmptyMap
    /\ urlIndex = EmptyMap
    /\ toolCalls = EmptyMap
    /\ enqueued = <<>>
    /\ blocks = EmptyMap
    /\ nread = 0
    /\ streamState = "open"
    /\ tabCache = <<>>
    /\ netResult = NoNetCall
    /\ sockets = <<>>
    /\ clients = EmptyMap
    /\ lastMsg = NoMsg
    /\ inflight = <<>>
    /\ wire = <<>>
    /\ written = 0
    /\ decoderPending = <<>>
    /\ buffer = <<>>
    /\ currentEvent = <<"m">>
    /\ yielded = <<>>
    /\ lastCut = FALSE
    /\ stopSeen = FALSE
    /\ prompt = <<>>
    /\ outbound = NoConversion
    /\ chunkBody = NoBody
    /\ chunkResult = NoChunkCall
    /\ pages = <<>>

Init ==
    /\ conversations = [c \in ConvIds |-> NoState]
    /\ runs = <<>>
    /\ aborted = {}
    /\ emitted = [c \in ConvIds |-> <<>>]
    /\ delivered = [c \in ConvIds |-> <<>>]
    /\ pushes = 0
    /\ InitScript
    /\ awaiting = EmptyMap
    /\ InitOther

\* ---------------------------------------------------------------- actions
\* startConversation, with the synchronous head of streamResponse (the trim
\* and the streamText call run before the first await).
StartConversation(c, p, t) ==
    /\ Len(runs) < MaxRuns
    /\ LET r == Len(runs) + 1
           old == conversations[c]
           st == IF ~Has(c)
                 THEN [status |-> "streaming", chunks |-> <<>>, fullText |-> <<>>,
                       abortController |-> r, tabId |-> t, messages |-> <<>>]
                 ELSE [old EXCEPT !.abortController = r,
                                  !.status = "streaming",
                                  !.chunks = <<>>]
           pushed == Append(st.messages, UserMessage(p, r))
       IN /\ conversations' =
                [conversations EXCEPT ![c] = [st EXCEPT !.messages = TrimHistory(pushed)]]
          /\ runs' = Append(runs,
                [conv |-> c, tabId |-> t, pc |-> "stream",
                 steps |-> <<>>, cur |-> EmptyStep, nnotool |-> 0,
                 nfail |-> 0])
    /\ emitted' = [emitted EXCEPT ![c] = <<>>]
    /\ delivered' = [delivered EXCEPT ![c] = <<>>]
    /\ UNCHANGED <<aborted, pushes>>

\* Run r is suspended in the for-await over result.fullStream.
Streaming(r) == r \in 1..Len(runs) /\ runs[r].pc = "stream"

\* streamResponse has returned: its locals are gone.
Returned(run) ==
    [run EXCEPT !.pc = "done", !.steps = <<>>, !.cur = EmptyStep,
                !.nnotool = 0, !.nfail = 0]

\* The chunk a push builds now for the record of conversation c.
NextChunk(c, type, data, id) == Chunk(type, data, id, Len(emitted[c]) + 1)

\* Mutant: the chunk is put in front of the buffer (unshift).
PushChunkFront(st, ch) == [st EXCEPT !.chunks = <<ch>> \o @]

\* state.chunks.push(ch)
PushChunk(st, ch) == [st EXCEPT !.chunks = Append(@, ch)]

\* Run r pushes chunk ch to the record it captured and leaves it as st
\* otherwise.
Push(r, ch, st) ==
    /\ conversations' = [conversations EXCEPT ![runs[r].conv] = PushChunk(st, ch)]
    /\ emitted' = [emitted EXCEPT ![runs[r].conv] = Append(@, ch)]

\* The record run r captured.
State(r) == conversations[runs[r].conv]

\* Mutant: every text delta marks the conversation as streaming.
TextDeltaSetsStreaming(r, d) ==
    /\ r \in 1..Len(runs) /\ runs[r].pc = "stream"
    /\ r \notin aborted /\ pushes < MaxChunks
    /\ LET c == runs[r].conv
           ch == Chunk("text-delta", d, 0, Len(emitted[c]) + 1)
       IN /\ conversations' = [conversations EXCEPT
                ![c].chunks = Append(@, ch),
                ![c].fullText = Append(@, d),
                ![c].status = "streaming"]
          /\ emitted' = [emitted EXCEPT ![c] = Append(@, ch)]
    /\ runs' = [runs EXCEPT ![r].cur.text = TRUE]
    /\ pushes' = pushes + 1
    /\ UNCHANGED <<aborted, delivered>>

\* Mutant: the text delta is pushed as a chunk only.
TextDeltaChunkOnly(r, d) ==
    /\ Streaming(r) /\ r \notin aborted /\ pushes < MaxChunks
    /\ Push(r, NextChunk(runs[r].conv, "text-delta", d, 0), State(r))
    /\ runs' = [runs EXCEPT ![r].cur.text = TRUE]
    /\ pushes' = pushes + 1
    /\ UNCHANGED <<aborted, delivered>>

\* chunk.type === "text-delta"
TextDelta(r, d) ==
    /\ Streaming(r) /\ r \notin aborted /\ pushes < MaxChunks
    /\ Push(r, NextChunk(runs[r].conv, "text-delta", d, 0),
            [State(r) EXCEPT !.fullText = Append(@, d)])
    /\ runs' = [runs EXCEPT ![r].cur.text = TRUE]
    /\ pushes' = pushes + 1
    /\ UNCHANGED <<aborted, delivered>>

\* chunk.type === "tool-call"
ToolCall(r) ==
    /\ Streaming(r) /\ r \notin aborted /\ pushes < MaxChunks
    /\ LET id == pushes + 1
       IN /\ Push(r, NextChunk(runs[r].conv, "tool-call", "", id), State(r))
          /\ runs' = [runs EXCEPT ![r].cur.toolCalls = Append(@, id)]
    /\ pushes' = pushes + 1
    /\ UNCHANGED <<aborted, delivered>>

\* The tool calls of the current step whose execute() has not returned.
Outstanding(r) ==
    {runs[r].cur.toolCalls[i] : i \in 1..Len(runs[r].cur.toolCalls)}
    \ {runs[r].cur.toolResults[i] : i \in 1..Len(runs[r].cur.toolResults)}

\* Mutant: the tool-result chunk is pushed without the id of its call.
ToolResultWithoutId(r, id, res) ==
    /\ r \in 1..Len(runs) /\ runs[r].pc = "stream" /\ pushes < MaxChunks
    /\ id \in Outstanding(r)
    /\ LET c == runs[r].conv
           ch == Chunk("tool-result", res, 0, Len(emitted[c]) + 1)
       IN /\ conversations' = [conversations EXCEPT ![c].chunks = Append(@, ch)]
          /\ emitted' = [emitted EXCEPT ![c] = Append(@, ch)]
    /\ runs' = [runs EXCEPT ![r].cur.toolResults = Append(@, id),
                            ![r].nfail = IF res = "error" THEN @ + 1 ELSE 0]
    /\ pushes' = pushes + 1
    /\ UNCHANGED <<aborted, delivered>>

\* chunk.type === "tool-result"; the tools do not read the abort signal, so
\* a tool that is executing delivers its result also after abort().  res is
\* the result the tool returned: an object with an error field ("error") or
\* without one ("ok"); the chunk carries it as it is.
ToolResult(r, id, res) ==
    /\ Streaming(r) /\ pushes < MaxChunks
    /\ id \in Outstanding(r)
    /\ Push(r, NextChunk(runs[r].conv, "tool-result", res, id), State(r))
    /\ runs' = [runs EXCEPT ![r].cur.toolResults = Append(@, id),
                            ![r].nfail = IF res = "error" THEN @ + 1 ELSE 0]
    /\ pushes' = pushes + 1
    /\ UNCHANGED <<aborted, delivered>>

\* chunk.type === "error" with error.name === "AI_NoSuchToolError": an error
\* chunk is pushed and the loop continues.
NoSuchTool(r) ==
    /\ Streaming(r) /\ r \notin aborted /\ pushes < MaxChunks
    /\ Push(r, NextChunk(runs[r].conv, "error", "no-such-tool", 0), State(r))
    /\ runs' = [runs EXCEPT ![r].nnotool = @ + 1]
    /\ pushes' = pushes + 1
    /\ UNCHANGED <<aborted, delivered>>

\* chunk.type === "step-finish": logged only.  The SDK closes a step when
\* the model's response, which has text or tool calls, has ended and its
\* tools have returned.
StepFinish(r) ==
    /\ Streaming(r)
    /\ Outstanding(r) = {}
    /\ runs[r].cur # EmptyStep
    /\ runs' = [runs EXCEPT ![r].steps = Append(@, runs[r].cur),
                            ![r].cur = EmptyStep]
    /\ UNCHANGED <<conversations, aborted, emitted, delivered, pushes>>

\* The stream ends: usage and steps are read, one assistant message per
\* non-empty step is pushed, status becomes completed, finish is pushed.
Finish(r) ==
    /\ Streaming(r) /\ r \notin aborted
    /\ Len(runs[r].steps) >= 1 /\ runs[r].cur = EmptyStep
    /\ Push(r, NextChunk(runs[r].conv, "finish", "done", 0),
            [State(r) EXCEPT !.messages = PushSteps(@, runs[r].steps, r),
                             !.status = "completed"])
    /\ runs' = [runs EXCEPT ![r] = Returned(@)]
    /\ UNCHANGED <<aborted, delivered, pushes>>

\* Mutant: the catch block does not look at signal.aborted and pushes the
\* error chunk also for an aborted run.
CatchAbortedPushesError(r) ==
    /\ r \in 1..Len(runs) /\ runs[r].pc = "stream" /\ r \in aborted
    /\ LET c == runs[r].conv
           ch == Chunk("error", "error.message", 0, Len(emitted[c]) + 1)
       IN /\ conversations' = [conversations EXCEPT
                ![c].chunks = Append(@, ch), ![c].status = "aborted"]
          /\ emitted' = [emitted EXCEPT ![c] = Append(@, ch)]
    /\ runs' = [runs EXCEPT ![r] =
            [@ EXCEPT !.pc = "done", !.steps = <<>>, !.cur = EmptyStep,
                      !.nnotool = 0, !.nfail = 0]]
    /\ aborted' = aborted \ {r}
    /\ UNCHANGED <<delivered, pushes>>

\* The iteration (or an awaited promise) throws and the run's own signal is
\* aborted: the catch block only sets the status.
CatchAborted(r) ==
    /\ Streaming(r) /\ r \in aborted
    /\ conversations' = [conversations EXCEPT ![runs[r].conv].status = "aborted"]
    /\ runs' = [runs EXCEPT ![r] = Returned(@)]
    /\ aborted' = aborted \ {r}
    /\ UNCHANGED <<emitted, delivered, pushes>>

\* The iteration throws and the run's own signal is not aborted.
CatchError(r) ==
    /\ Streaming(r) /\ r \notin aborted
    /\ Push(r, NextChunk(runs[r].conv, "error", "error.message", 0),
            [State(r) EXCEPT !.status = "error",
                             !.messages = PopUnprocessedUser(@)])
    /\ runs' = [runs EXCEPT ![r] = Returned(@)]
    /\ UNCHANGED <<aborted, delivered, pushes>>

\* The value getUpdates returns for a conversation in the Map.
GetUpdatesResult(c) ==
    [chunks |-> conversations[c].chunks,
     status |-> conversations[c].status,
     fullText |-> conversations[c].fullText]

\* Mutant: the buffer is returned but not cleared.
GetUpdatesNoClear(c) ==
    /\ conversations[c].status # "absent"
    /\ delivered' = [delivered EXCEPT ![c] = @ \o conversations[c].chunks]
    /\ UNCHANGED <<conversations, runs, aborted, emitted, pushes>>

\* getUpdates: returns and clears the buffered chunks (null for an id that
\* is not in the Map).
GetUpdates(c) ==
    /\ Has(c)
    /\ delivered' = [delivered EXCEPT ![c] = @ \o GetUpdatesResult(c).chunks]
    /\ conversations' = [conversations EXCEPT ![c].chunks = <<>>]
    /\ UNCHANGED <<runs, aborted, emitted, pushes>>

\* abort: aborts the controller stored in the record and sets the status.
Abort(c) ==
    /\ Has(c)
    /\ aborted' = IF Streaming(conversations[c].abortController)
                  THEN aborted \cup {conversations[c].abortController}
                  ELSE aborted
    /\ conversations' = [conversations EXCEPT ![c].status = "aborted"]
    /\ UNCHANGED <<runs, emitted, delivered, pushes>>

\* cleanup: deletes the Map entry.  A run in flight keeps writing to the
\* object it captured, which nothing can read any more: pc "orphan".
Cleanup(c) ==
    /\ Has(c)
    /\ conversations' = [conversations EXCEPT ![c] = NoState]
    /\ runs' = [r \in 1..Len(runs) |->
                    IF runs[r].conv = c /\ runs[r].pc = "stream"
                    THEN [Returned(runs[r]) EXCEPT !.pc = "orphan"]
                    ELSE runs[r]]
    /\ aborted' = aborted \ {r \in 1..Len(runs) : runs[r].conv = c}
    /\ emitted' = [emitted EXCEPT ![c] = <<>>]
    /\ delivered' = [delivered EXCEPT ![c] = <<>>]
    /\ UNCHANGED pushes

Next ==
    \/ \E c \in ConvIds, p \in Prompts, t \in TabIds :
          StartConversation(c, p, t) /\ UNCHANGED <<svars, awaiting, ovars>>
    \/ \E r \in 1..Len(runs), d \in Deltas :
          TextDelta(r, d) /\ UNCHANGED <<svars, awaiting, ovars>>
    \/ \E r \in 1..Len(runs) : ToolCall(r) /\ UNCHANGED <<svars, awaiting, ovars>>
    \/ \E r \in 1..Len(runs) : \E id \in Outstanding(r) : \E res \in Results :
          ToolResult(r, id, res) /\ UNCHANGED <<svars, awaiting, ovars>>
    \/ \E r \in 1..Len(runs) : NoSuchTool(r) /\ UNCHANGED <<svars, awaiting, ovars>>
    \/ \E r \in 1..Len(runs) : StepFinish(r) /\ UNCHANGED <<svars, awaiting, ovars>>
    \/ \E r \in 1..Len(runs) : Finish(r) /\ UNCHANGED <<svars, awaiting, ovars>>
    \/ \E r \in 1..Len(runs) : CatchAborted(r) /\ UNCHANGED <<svars, awaiting, ovars>>
    \/ \E r \in 1..Len(runs) : CatchError(r) /\ UNCHANGED <<svars, awaiting, ovars>>
    \/ \E c \in ConvIds : GetUpdates(c) /\ UNCHANGED <<svars, awaiting, ovars>>
    \/ \E c \in ConvIds : Abort(c) /\ UNCHANGED <<svars, awaiting, ovars>>
    \/ \E c \in ConvIds : Cleanup(c) /\ UNCHANGED <<svars, awaiting, ovars>>

Spec == Init /\ [][Next]_vars

\* A second starting point: a conversation that has already been used.  Its
\* stored history is the one left by earlier runs (run 0) that each answered
\* with one text step: 10 entries after five completed runs (an odd length
\* is the history left when the last of them was aborted before it
\* answered).  Every chunk has been polled.
PriorHistory(n) ==
    [i \in 1..n |->
        IF i % 2 = 1 THEN UserMessage("p", 0)
        ELSE AssistantMessage([EmptyStep EXCEPT !.text = TRUE], 0)]

InitHistory ==
    /\ \E n \in HistLens :
         conversations = [c \in ConvIds |->
            [status |-> IF n % 2 = 0 THEN "completed" ELSE "aborted",
             chunks |-> <<>>,
             fullText |-> [i \in 1..(n \div 2) |-> "a"],
             abortController |-> 0, tabId |-> 1,
             messages |-> PriorHistory(n)]]
    /\ runs = <<>>
    /\ aborted = {}
    /\ emitted = [c \in ConvIds |-> <<>>]
    /\ delivered = [c \in ConvIds |-> <<>>]
    /\ pushes = 0
    /\ InitScript
    /\ awaiting = EmptyMap
    /\ InitOther

SpecHistory == InitHistory /\ [][Next]_vars

\* A third starting point: a run in the middle of its stream whose tool has
\* returned an error result twice in a row (calls 101 and 102, each in a
\* step of its own); every chunk has been polled.
LoopStep(id) == [text |-> FALSE, toolCalls |-> <<id>>, toolResults |-> <<id>>]

LoopChunks ==
    <<Chunk("tool-call", "", 101, 1), Chunk("tool-result", "error", 101, 2),
      Chunk("tool-call", "", 102, 3), Chunk("tool-result", "error", 102, 4)>>

InitLoop ==
    /\ conversations = [c \in ConvIds |->
          [status |-> "streaming", chunks |-> <<>>, fullText |-> <<>>,
           abortController |-> 1, tabId |-> 1,
           messages |-> <<UserMessage("p", 1)>>]]
    /\ runs = <<[conv |-> "c1", tabId |-> 1, pc |-> "stream",
                 steps |-> <<LoopStep(101), LoopStep(102)>>,
                 cur |-> EmptyStep, nnotool |-> 0, nfail |-> 2]>>
    /\ aborted = {}
    /\ emitted = [c \in ConvIds |-> LoopChunks]
    /\ delivered = [c \in ConvIds |-> LoopChunks]
    /\ pushes = 0
    /\ InitScript
    /\ awaiting = EmptyMap
    /\ InitOther

SpecLoop == InitLoop /\ [][Next]_vars

\* ------------------------------------------- ScriptExecutionManager
\* Map.delete / Map.set on a Map modelled as a function.
MapDelete(m, k) == [x \in DOMAIN m \ {k} |-> m[x]]
MapSet(m, k, v) == [x \in DOMAIN m \cup {k} |-> IF x = k THEN v ELSE m[x]]

\* queue.splice(queue.indexOf(id), 1)
Splice(q, id) ==
    IF \E i \in 1..Len(q) : q[i] = id
    THEN LET index == CHOOSE i \in 1..Len(q) :
                        q[i] = id /\ \A j \in 1..(i - 1) : q[j] # id
         IN SubSeq(q, 1, index - 1) \o SubSeq(q, index + 1, Len(q))
    ELSE q

\* Mutant: a queue that became empty stays in the Map.
RemoveFromQueueKeepsEmpty(eq, tabId, id) ==
    IF tabId \notin DOMAIN eq THEN eq
    ELSE MapSet(eq, tabId, Splice(eq[tabId], id))

\* removeFromQueue(tabId, id), as a function of the queue Map.
RemoveFromQueue(eq, tabId, id) ==
    IF tabId \notin DOMAIN eq THEN eq
    ELSE IF Splice(eq[tabId], id) = <<>> THEN MapDelete(eq, tabId)
    ELSE MapSet(eq, tabId, Splice(eq[tabId], id))

\* The promise callback cb of execution id is invoked.
Invoke(id, cb) == settled' = [settled EXCEPT ![id] = Append(@, cb)]

\* queueScriptExecution(tabId, code): the executor of the new Promise runs
\* synchronously.
QueueScriptExecution(tabId, code) ==
    /\ idCounter < MaxExecs
    /\ LET id == idCounter + 1
       IN /\ idCounter' = id
          /\ timers' = MapSet(timers, id, tabId)
          /\ pendingExecutions' =
                MapSet(pendingExecutions, id,
                       [id |-> id, tabId |-> tabId, code |-> code])
          /\ executionQueue' =
                MapSet(executionQueue, tabId,
                       IF tabId \in DOMAIN executionQueue
                       THEN Append(executionQueue[tabId], id)
                       ELSE <<id>>)
          /\ settled' = Append(settled, <<>>)
    /\ lastReturn' = NoCall
    /\ UNCHANGED handed

\* Mutant: the timer callback does not call removeFromQueue.
TimeoutKeepsQueue(id) ==
    /\ id \in DOMAIN timers
    /\ timers' = MapDelete(timers, id)
    /\ pendingExecutions' = MapDelete(pendingExecutions, id)
    /\ settled' = [settled EXCEPT ![id] = Append(@, "reject: timeout")]
    /\ lastReturn' = NoCall
    /\ UNCHANGED <<executionQueue, idCounter, handed>>

\* The setTimeout callback of execution id fires (the timer was not cleared).
Timeout(id) ==
    /\ id \in DOMAIN timers
    /\ timers' = MapDelete(timers, id)
    /\ pendingExecutions' = MapDelete(pendingExecutions, id)
    /\ executionQueue' = RemoveFromQueue(executionQueue, timers[id], id)
    /\ Invoke(id, "reject: timeout")
    /\ lastReturn' = NoCall
    /\ UNCHANGED <<idCounter, handed>>

\* The loop of getPendingScript that shifts orphaned entries off the queue.
RECURSIVE SkipOrphans(_)
SkipOrphans(q) ==
    IF q = <<>> \/ Head(q) \in DOMAIN pendingExecutions THEN q
    ELSE SkipOrphans(Tail(q))

\* The id getPendingScript(tabId) returns; 0 stands for null.
PendingScript(tabId) ==
    IF tabId \notin DOMAIN executionQueue THEN 0
    ELSE IF SkipOrphans(executionQueue[tabId]) = <<>> THEN 0
    ELSE Head(SkipOrphans(executionQueue[tabId]))

\* Mutant: the newest entry of the queue is handed out.
GetPendingScriptNewest(tabId) ==
    /\ Len(handed) < MaxPolls
    /\ tabId \in DOMAIN executionQueue
    /\ handed' = Append(handed, executionQueue[tabId][Len(executionQueue[tabId])])
    /\ lastReturn' = [op |-> "poll", arg |-> tabId, ret |-> TRUE]
    /\ UNCHANGED <<pendingExecutions, executionQueue, idCounter, timers, settled>>

\* getPendingScript(tabId): the head of the tab's queue is returned and stays
\* in the queue.
GetPendingScript(tabId) ==
    /\ Len(handed) < MaxPolls
    /\ executionQueue' =
          IF tabId \in DOMAIN executionQueue
          THEN MapSet(executionQueue, tabId, SkipOrphans(executionQueue[tabId]))
          ELSE executionQueue
    /\ handed' = IF PendingScript(tabId) # 0
                 THEN Append(handed, PendingScript(tabId))
                 ELSE handed
    /\ lastReturn' = [op |-> "poll", arg |-> tabId,
                      ret |-> PendingScript(tabId) # 0]
    /\ UNCHANGED <<pendingExecutions, idCounter, timers, settled>>

\* What resolveScriptExecution / rejectScriptExecution do with a pending
\* execution: clearTimeout, removeFromQueue, delete, then the callback cb.
Settle(id, cb) ==
    /\ timers' = MapDelete(timers, id)
    /\ executionQueue' =
          RemoveFromQueue(executionQueue, pendingExecutions[id].tabId, id)
    /\ pendingExecutions' = MapDelete(pendingExecutions, id)
    /\ Invoke(id, cb)

\* Mutant: the timer of a resolved execution is left armed.
ResolveKeepsTimer(id) ==
    /\ IF id \in DOMAIN pendingExecutions
       THEN /\ executionQueue' =
                  RemoveFromQueue(executionQueue, pendingExecutions[id].tabId, id)
            /\ pendingExecutions' = MapDelete(pendingExecutions, id)
            /\ settled' = [settled EXCEPT ![id] = Append(@, "resolve")]
            /\ lastReturn' = [op |-> "resolve", arg |-> id, ret |-> TRUE]
            /\ UNCHANGED timers
       ELSE /\ lastReturn' = [op |-> "resolve", arg |-> id, ret |-> FALSE]
            /\ UNCHANGED <<pendingExecutions, executionQueue, timers, settled>>
    /\ UNCHANGED <<idCounter, handed>>

\* resolveScriptExecution(id, result)
ResolveScriptExecution(id) ==
    /\ IF id \in DOMAIN pendingExecutions
       THEN /\ Settle(id, "resolve")
            /\ lastReturn' = [op |-> "resolve", arg |-> id, ret |-> TRUE]
       ELSE /\ lastReturn' = [op |-> "resolve", arg |-> id, ret |-> FALSE]
            /\ UNCHANGED <<pendingExecutions, executionQueue, timers, settled>>
    /\ UNCHANGED <<idCounter, handed>>

\* Mutant: a reject for an id that is not pending invokes the callback again.
RejectAgain(id) ==
    /\ IF id \in DOMAIN pendingExecutions
       THEN /\ Settle(id, "reject: runner")
            /\ lastReturn' = [op |-> "reject", arg |-> id, ret |-> TRUE]
       ELSE /\ settled' = [i \in 1..Len(settled) |->
                              IF i = id THEN Append(settled[i], "reject: runner")
                              ELSE settled[i]]
            /\ lastReturn' = [op |-> "reject", arg |-> id, ret |-> FALSE]
            /\ UNCHANGED <<pendingExecutions, executionQueue, timers>>
    /\ UNCHANGED <<idCounter, handed>>

\* rejectScriptExecution(id, error)
RejectScriptExecution(id) ==
    /\ IF id \in DOMAIN pendingExecutions
       THEN /\ Settle(id, "reject: runner")
            /\ lastReturn' = [op |-> "reject", arg |-> id, ret |-> TRUE]
       ELSE /\ lastReturn' = [op |-> "reject", arg |-> id, ret |-> FALSE]
            /\ UNCHANGED <<pendingExecutions, executionQueue, timers, settled>>
    /\ UNCHANGED <<idCounter, handed>>

\* The entries of tab tabId's queue that are in the pending table.
PendingOf(tabId) ==
    IF tabId \in DOMAIN executionQueue
    THEN {executionQueue[tabId][i] : i \in 1..Len(executionQueue[tabId])}
         \cap DOMAIN pendingExecutions
    ELSE {}

\* The loop shared by clearTabExecutions and cancelAllForTab: every pending
\* entry of the tab's queue has its timer cleared, is rejected with cb and
\* deleted; then the queue is deleted.
RejectAllForTab(tabId, cb) ==
    /\ timers' = [x \in DOMAIN timers \ PendingOf(tabId) |-> timers[x]]
    /\ settled' = [i \in 1..Len(settled) |->
                      IF i \in PendingOf(tabId) THEN Append(settled[i], cb)
                      ELSE settled[i]]
    /\ pendingExecutions' =
          [x \in DOMAIN pendingExecutions \ PendingOf(tabId) |->
              pendingExecutions[x]]
    /\ executionQueue' = MapDelete(executionQueue, tabId)

\* Mutant: the whole pending table is cleared.
ClearTabExecutionsAll(tabId) ==
    /\ tabId \in DOMAIN executionQueue
    /\ timers' = EmptyMap
    /\ settled' = [i \in 1..Len(settled) |->
                      IF i \in DOMAIN pendingExecutions
                      THEN Append(settled[i], "reject: closed")
                      ELSE settled[i]]
    /\ pendingExecutions' = EmptyMap
    /\ executionQueue' = MapDelete(executionQueue, tabId)
    /\ lastReturn' = [op |-> "clear", arg |-> tabId, ret |-> TRUE]
    /\ UNCHANGED <<idCounter, handed>>

\* clearTabExecutions(tabId); a tab without a queue is left alone.
ClearTabExecutions(tabId) ==
    /\ tabId \in DOMAIN executionQueue
    /\ RejectAllForTab(tabId, "reject: closed")
    /\ lastReturn' = [op |-> "clear", arg |-> tabId, ret |-> TRUE]
    /\ UNCHANGED <<idCounter, handed>>

\* cancelAllForTab(tabId); a tab without a queue is left alone.
CancelAllForTab(tabId) ==
    /\ tabId \in DOMAIN executionQueue
    /\ RejectAllForTab(tabId, "reject: cancelled")
    /\ lastReturn' = [op |-> "cancel", arg |-> tabId, ret |-> TRUE]
    /\ UNCHANGED <<idCounter, handed>>

NextScript ==
    \/ \E t \in ScriptTabs, code \in Codes :
          QueueScriptExecution(t, code) /\ UNCHANGED <<cvars, awaiting, ovars>>
    \/ \E t \in ScriptTabs : GetPendingScript(t) /\ UNCHANGED <<cvars, awaiting, ovars>>
    \/ \E id \in 1..MaxExecs :
          ResolveScriptExecution(id) /\ UNCHANGED <<cvars, awaiting, ovars>>
    \/ \E id \in 1..MaxExecs :
          RejectScriptExecution(id) /\ UNCHANGED <<cvars, awaiting, ovars>>
    \/ \E id \in 1..MaxExecs : Timeout(id) /\ UNCHANGED <<cvars, awaiting, ovars>>
    \/ \E t \in ScriptTabs : ClearTabExecutions(t) /\ UNCHANGED <<cvars, awaiting, ovars>>
    \/ \E t \in ScriptTabs : CancelAllForTab(t) /\ UNCHANGED <<cvars, awaiting, ovars>>

\* The manager on its own, called by any client.
SpecScript == Init /\ [][NextScript]_vars

\* The manager with its timers: an armed timer fires unless it is cleared.
SpecScriptLive ==
    /\ Init
    /\ [][NextScript]_vars
    /\ \A id \in 1..MaxExecs :
          WF_vars(Timeout(id) /\ UNCHANGED <<cvars, awaiting, ovars>>)

\* ------------------------------------- execute_javascript and the runner
\* The model calls execute_javascript: the tool-call chunk is pushed and the
\* tool's execute queues the code for the run's tab and awaits the promise.
ExecuteJavascript(r, code) ==
    /\ ToolCall(r)
    /\ QueueScriptExecution(runs[r].tabId, code)
    /\ awaiting' = MapSet(awaiting, pushes + 1, idCounter + 1)

\* Mutant: the catch block reports success as well.
JavascriptReturnOk(outcome) == "ok"

\* What execute_javascript returns once its promise is settled: success
\* with the result, or success: false with the error's message.
JavascriptReturn(outcome) == IF outcome = <<"resolve">> THEN "ok" ELSE "error"

\* The promise of an execute_javascript call is settled: the tool returns
\* and its tool-result chunk is pushed.
JavascriptResult(r, id) ==
    /\ id \in DOMAIN awaiting
    /\ settled[awaiting[id]] # <<>>
    /\ ToolResult(r, id, JavascriptReturn(settled[awaiting[id]]))
    /\ awaiting' = MapDelete(awaiting, id)
    /\ UNCHANGED svars

\* The extension as it is wired: the tool is the only caller of
\* queueScriptExecution, the content script polls and reports, the timers
\* fire; nothing calls clearTabExecutions or cancelAllForTab.
NextTools ==
    \/ \E c \in ConvIds, p \in Prompts, t \in TabIds :
          StartConversation(c, p, t) /\ UNCHANGED <<svars, awaiting, ovars>>
    \/ \E r \in 1..Len(runs), d \in Deltas :
          TextDelta(r, d) /\ UNCHANGED <<svars, awaiting, ovars>>
    \/ \E r \in 1..Len(runs), code \in Codes :
          ExecuteJavascript(r, code) /\ UNCHANGED ovars
    \/ \E r \in 1..Len(runs) : \E id \in Outstanding(r) :
          JavascriptResult(r, id) /\ UNCHANGED ovars
    \/ \E r \in 1..Len(runs) : NoSuchTool(r) /\ UNCHANGED <<svars, awaiting, ovars>>
    \/ \E r \in 1..Len(runs) : StepFinish(r) /\ UNCHANGED <<svars, awaiting, ovars>>
    \/ \E r \in 1..Len(runs) : Finish(r) /\ UNCHANGED <<svars, awaiting, ovars>>
    \/ \E r \in 1..Len(runs) : CatchAborted(r) /\ UNCHANGED <<svars, awaiting, ovars>>
    \/ \E r \in 1..Len(runs) : CatchError(r) /\ UNCHANGED <<svars, awaiting, ovars>>
    \/ \E c \in ConvIds : GetUpdates(c) /\ UNCHANGED <<svars, awaiting, ovars>>
    \/ \E c \in ConvIds : Abort(c) /\ UNCHANGED <<svars, awaiting, ovars>>
    \/ \E c \in ConvIds : Cleanup(c) /\ UNCHANGED <<svars, awaiting, ovars>>
    \/ \E t \in ScriptTabs : GetPendingScript(t) /\ UNCHANGED <<cvars, awaiting, ovars>>
    \/ \E id \in 1..MaxExecs :
          ResolveScriptExecution(id) /\ UNCHANGED <<cvars, awaiting, ovars>>
    \/ \E id \in 1..MaxExecs :
          RejectScriptExecution(id) /\ UNCHANGED <<cvars, awaiting, ovars>>
    \/ \E id \in 1..MaxExecs : Timeout(id) /\ UNCHANGED <<cvars, awaiting, ovars>>

SpecTools == Init /\ [][NextTools]_vars

\* The execute_javascript tool against every way its promise can be settled:
\* the content script's report, the timer, and the two cancelling methods of
\* the manager.
NextRecover ==
    \/ \E c \in ConvIds, p \in Prompts, t \in TabIds :
          StartConversation(c, p, t) /\ UNCHANGED <<svars, awaiting, ovars>>
    \/ \E r \in 1..Len(runs), code \in Codes :
          ExecuteJavascript(r, code) /\ UNCHANGED ovars
    \/ \E r \in 1..Len(runs) : \E id \in Outstanding(r) :
          JavascriptResult(r, id) /\ UNCHANGED ovars
    \/ \E r \in 1..Len(runs) : StepFinish(r) /\ UNCHANGED <<svars, awaiting, ovars>>
    \/ \E r \in 1..Len(runs) : Finish(r) /\ UNCHANGED <<svars, awaiting, ovars>>
    \/ \E id \in 1..MaxExecs :
          ResolveScriptExecution(id) /\ UNCHANGED <<cvars, awaiting, ovars>>
    \/ \E id \in 1..MaxExecs :
          RejectScriptExecution(id) /\ UNCHANGED <<cvars, awaiting, ovars>>
    \/ \E id \in 1..MaxExecs : Timeout(id) /\ UNCHANGED <<cvars, awaiting, ovars>>
    \/ \E t \in ScriptTabs : ClearTabExecutions(t) /\ UNCHANGED <<cvars, awaiting, ovars>>
    \/ \E t \in ScriptTabs : CancelAllForTab(t) /\ UNCHANGED <<cvars, awaiting, ovars>>

SpecRecover == Init /\ [][NextRecover]_vars

\* The start-conversation handler passes the tabId of its message on: here
\* startConversation is called with any tab, and the runs call
\* execute_javascript.
NextTargets ==
    \/ \E c \in ConvIds, p \in Prompts, t \in ScriptTabs :
          StartConversation(c, p, t) /\ UNCHANGED <<svars, awaiting, ovars>>
    \/ \E r \in 1..Len(runs), code \in Codes :
          ExecuteJavascript(r, code) /\ UNCHANGED ovars
    \/ \E r \in 1..Len(runs) : \E id \in Outstanding(r) :
          JavascriptResult(r, id) /\ UNCHANGED ovars
    \/ \E r \in 1..Len(runs) : StepFinish(r) /\ UNCHANGED <<svars, awaiting, ovars>>
    \/ \E r \in 1..Len(runs) : Finish(r) /\ UNCHANGED <<svars, awaiting, ovars>>
    \/ \E id \in 1..MaxExecs :
          ResolveScriptExecution(id) /\ UNCHANGED <<cvars, awaiting, ovars>>
    \/ \E id \in 1..MaxExecs : Timeout(id) /\ UNCHANGED <<cvars, awaiting, ovars>>

SpecTargets == Init /\ [][NextTargets]_vars

\* ------------------------------------------- webrequest buffer, tab events
\* getIndexKey: `${url}|${tabId}`; a tabId has no "|", so the key determines
\* the pair.
GetIndexKey(url, tabId) == <<url, tabId>>

\* storePendingRequest(request)
StorePendingRequest(requestId, url, tabId) ==
    /\ pendingRequests' =
          MapSet(pendingRequests, requestId,
                 [url |-> url, tabId |-> tabId, status |-> 0, aged |-> FALSE])
    /\ urlIndex' =
          LET k == GetIndexKey(url, tabId)
          IN MapSet(urlIndex, k,
                    IF k \in DOMAIN urlIndex THEN urlIndex[k] \cup {requestId}
                    ELSE {requestId})

\* removePendingRequest(requestId) applied to the buffer <<pr, ui>>: the two
\* maps after the call.
RemovePendingRequest(pr, ui, requestId) ==
    IF requestId \notin DOMAIN pr THEN <<pr, ui>>
    ELSE LET k == GetIndexKey(pr[requestId].url, pr[requestId].tabId)
             ui2 == IF k \notin DOMAIN ui THEN ui
                    ELSE IF ui[k] \ {requestId} = {} THEN MapDelete(ui, k)
                    ELSE MapSet(ui, k, ui[k] \ {requestId})
         IN <<MapDelete(pr, requestId), ui2>>

\* the loops of clearTabRequests and cleanupOldRequests: removePendingRequest
\* for each id of ids
RECURSIVE RemoveEach(_, _, _)
RemoveEach(pr, ui, ids) ==
    IF ids = {} THEN <<pr, ui>>
    ELSE LET id == CHOOSE x \in ids : TRUE
             b == RemovePendingRequest(pr, ui, id)
         IN RemoveEach(b[1], b[2], ids \ {id})

\* clearTabRequests(tabId)
ClearTabRequests(tabId) ==
    LET b == RemoveEach(pendingRequests, urlIndex,
                {id \in DOMAIN pendingRequests :
                    pendingRequests[id].tabId = tabId})
    IN /\ pendingRequests' = b[1]
       /\ urlIndex' = b[2]

\* updatePendingRequest(requestId, update): the response data are written
\* into the buffered request; an unknown id is only logged.
UpdatePendingRequest(requestId) ==
    /\ pendingRequests' =
          IF requestId \in DOMAIN pendingRequests
          THEN [pendingRequests EXCEPT ![requestId].status = 200]
          ELSE pendingRequests
    /\ UNCHANGED urlIndex

\* The timer armed by onCompleted / onErrorOccurred fires:
\* removePendingRequest(details.requestId).
RequestCompleted(requestId) ==
    LET b == RemovePendingRequest(pendingRequests, urlIndex, requestId)
    IN /\ pendingRequests' = b[1]
       /\ urlIndex' = b[2]

\* More than 30 seconds pass: every buffered request is older than maxAge
\* (aged stands for now - requestTimestamp > 30_000).
Age ==
    /\ pendingRequests' =
          [id \in DOMAIN pendingRequests |->
              [pendingRequests[id] EXCEPT !.aged = TRUE]]
    /\ UNCHANGED urlIndex

\* cleanupOldRequests()
CleanupOldRequests ==
    LET b == RemoveEach(pendingRequests, urlIndex,
                {id \in DOMAIN pendingRequests : pendingRequests[id].aged})
    IN /\ pendingRequests' = b[1]
       /\ urlIndex' = b[2]

\* The buffer under the webRequest listeners: a request is stored when its
\* headers are sent (again, with the new URL, after a redirect), updated
\* when the response starts and removed by a timer, the periodic cleanup or
\* the closing of its tab.
NextBuffer ==
    \/ \E id \in RequestIds, u \in BufferUrls, t \in ScriptTabs :
          StorePendingRequest(id, u, t) /\ UNCHANGED <<cvars, svars, awaiting, outW>>
    \/ \E id \in RequestIds :
          UpdatePendingRequest(id) /\ UNCHANGED <<cvars, svars, awaiting, outW>>
    \/ \E id \in RequestIds :
          RequestCompleted(id) /\ UNCHANGED <<cvars, svars, awaiting, outW>>
    \/ Age /\ UNCHANGED <<cvars, svars, awaiting, outW>>
    \/ CleanupOldRequests /\ UNCHANGED <<cvars, svars, awaiting, outW>>
    \/ \E t \in ScriptTabs :
          ClearTabRequests(t) /\ UNCHANGED <<cvars, svars, awaiting, outW>>

SpecBuffer == Init /\ [][NextBuffer]_vars

\* The chrome.tabs.onRemoved listener, the only one the background script
\* registers: the tab's buffered requests are cleared.  The
\* ScriptExecutionManager is not called.
TabRemoved(tabId) ==
    /\ ClearTabRequests(tabId)
    /\ lastReturn' = [op |-> "tab-removed", arg |-> tabId, ret |-> FALSE]
    /\ UNCHANGED <<pendingExecutions, executionQueue, idCounter, timers,
                   settled, handed>>

\* The script executions of the extension as it is wired, with the tab
\* events: executions are queued, polled, reported and time out, requests
\* are buffered, tabs are closed.
NextTabs ==
    \/ \E t \in ScriptTabs, code \in Codes :
          QueueScriptExecution(t, code) /\ UNCHANGED <<cvars, awaiting, ovars>>
    \/ \E t \in ScriptTabs : GetPendingScript(t) /\ UNCHANGED <<cvars, awaiting, ovars>>
    \/ \E id \in 1..MaxExecs :
          ResolveScriptExecution(id) /\ UNCHANGED <<cvars, awaiting, ovars>>
    \/ \E id \in 1..MaxExecs :
          RejectScriptExecution(id) /\ UNCHANGED <<cvars, awaiting, ovars>>
    \/ \E id \in 1..MaxExecs : Timeout(id) /\ UNCHANGED <<cvars, awaiting, ovars>>
    \/ \E id \in RequestIds, u \in Urls, t \in ScriptTabs :
          StorePendingRequest(id, u, t) /\ UNCHANGED <<cvars, svars, awaiting, outW>>
    \/ \E t \in ScriptTabs : TabRemoved(t) /\ UNCHANGED <<cvars, awaiting, outW>>

SpecTabs == Init /\ [][NextTabs]_vars

\* ------------------------------------------- model provider: doStream
\* The start() callback of the ReadableStream doStream returns: it consumes
\* the records parseSSE yields and enqueues stream parts.  Each action is
\* one record, with the branch of the if-chain that handles it.  The usage
\* counters are not modelled.
\*
\* JSON.parse of the accumulated argument text.  The texts are sequences of
\* the characters "{" and "}"; the only JSON text over them is {}.
JsonParses(text) == text = <<"{", "}">>

\* One more record has been consumed.
Consume == streamState = "open" /\ nread < MaxEvents /\ nread' = nread + 1

\* event message_start: usage only.
MessageStart ==
    /\ Consume
    /\ UNCHANGED <<toolCalls, enqueued, blocks, streamState>>
    /\ UNCHANGED stopSeen

\* event content_block_start; btype is content_block.type.  The server
\* gives every block an id of its own (here the number of the record).
ContentBlockStart(index, btype, name) ==
    /\ Consume
    /\ IF btype = "tool_use"
       THEN /\ toolCalls' = MapSet(toolCalls, index,
                   [id |-> nread + 1, name |-> name, argsText |-> <<>>])
            /\ blocks' = MapSet(blocks, index,
                   [id |-> nread + 1, name |-> name, frags |-> <<>>])
       ELSE UNCHANGED <<toolCalls, blocks>>
    /\ UNCHANGED <<enqueued, streamState>>
    /\ UNCHANGED stopSeen

\* event content_block_delta with a text_delta
TextDeltaEvent(text) ==
    /\ Consume
    /\ enqueued' = Append(enqueued, [type |-> "text-delta", id |-> 0, name |-> "",
                               text |-> <<text>>])
    /\ UNCHANGED <<toolCalls, blocks, streamState>>
    /\ UNCHANGED stopSeen

\* Mutant: the fragment is appended to every tool call being built.
InputJsonDeltaAll(index, frag) ==
    /\ Consume
    /\ toolCalls' = [i \in DOMAIN toolCalls |->
                        [toolCalls[i] EXCEPT !.argsText = @ \o frag]]
    /\ blocks' = IF index \in DOMAIN blocks
                 THEN [blocks EXCEPT ![index].frags = Append(@, frag)]
                 ELSE blocks
    /\ UNCHANGED <<enqueued, streamState>>
    /\ UNCHANGED stopSeen

\* event content_block_delta with an input_json_delta
InputJsonDelta(index, frag) ==
    /\ Consume
    /\ toolCalls' = IF index \in DOMAIN toolCalls
                    THEN [toolCalls EXCEPT ![index].argsText = @ \o frag]
                    ELSE toolCalls
    /\ blocks' = IF index \in DOMAIN blocks
                 THEN [blocks EXCEPT ![index].frags = Append(@, frag)]
                 ELSE blocks
    /\ UNCHANGED <<enqueued, streamState>>
    /\ UNCHANGED stopSeen

\* event content_block_stop: the accumulated text is parsed; on success the
\* tool-call part is enqueued, on failure the error is logged; the entry is
\* deleted.
ContentBlockStop(index) ==
    /\ Consume
    /\ IF index \in DOMAIN toolCalls
       THEN /\ enqueued' = IF JsonParses(toolCalls[index].argsText)
                        THEN Append(enqueued,
                               [type |-> "tool-call",
                                id |-> toolCalls[index].id,
                                name |-> toolCalls[index].name,
                                text |-> toolCalls[index].argsText])
                        ELSE enqueued
            /\ toolCalls' = MapDelete(toolCalls, index)
       ELSE UNCHANGED <<toolCalls, enqueued>>
    /\ blocks' = MapDelete(blocks, index)
    /\ UNCHANGED streamState
    /\ UNCHANGED stopSeen

\* event message_delta; a stop_reason enqueues the finish part.
MessageDelta(stopReason) ==
    /\ Consume
    /\ enqueued' = IF stopReason = "none" THEN enqueued
                ELSE Append(enqueued,
                       [type |-> "finish", id |-> 0, name |-> "",
                        text |-> <<IF stopReason = "end_turn" THEN "stop"
                                   ELSE IF stopReason = "tool_use"
                                        THEN "tool-calls" ELSE "other">>])
    /\ UNCHANGED <<toolCalls, blocks, streamState>>
    /\ UNCHANGED stopSeen

\* event message_stop: logged.
MessageStop ==
    /\ Consume
    /\ stopSeen' = TRUE
    /\ UNCHANGED <<toolCalls, enqueued, blocks, streamState>>

\* reader.read() reports done: parseSSE returns, controller.close().
ReaderDone ==
    /\ streamState = "open"
    /\ streamState' = "closed"
    /\ UNCHANGED <<toolCalls, enqueued, blocks, nread>>
    /\ UNCHANGED stopSeen

\* reader.read() rejects: the catch block calls controller.error(error).
ReaderError ==
    /\ streamState = "open"
    /\ streamState' = "errored"
    /\ UNCHANGED <<toolCalls, enqueued, blocks, nread>>
    /\ UNCHANGED stopSeen

NextProvider ==
    \/ MessageStart /\ UNCHANGED <<cvars, svars, awaiting, outP>>
    \/ \E i \in Indices, b \in {"text", "tool_use"}, n \in ToolNames :
          ContentBlockStart(i, b, n) /\ UNCHANGED <<cvars, svars, awaiting, outP>>
    \/ \E d \in Deltas : TextDeltaEvent(d) /\ UNCHANGED <<cvars, svars, awaiting, outP>>
    \/ \E i \in Indices, f \in Fragments :
          InputJsonDelta(i, f) /\ UNCHANGED <<cvars, svars, awaiting, outP>>
    \/ \E i \in Indices : ContentBlockStop(i) /\ UNCHANGED <<cvars, svars, awaiting, outP>>
    \/ \E sr \in StopReasons : MessageDelta(sr) /\ UNCHANGED <<cvars, svars, awaiting, outP>>
    \/ MessageStop /\ UNCHANGED <<cvars, svars, awaiting, outP>>
    \/ ReaderDone /\ UNCHANGED <<cvars, svars, awaiting, outP>>
    \/ ReaderError /\ UNCHANGED <<cvars, svars, awaiting, outP>>

SpecProvider == Init /\ [][NextProvider]_vars

\* ------------------------------------------- get_network_requests
\* addCacheEntry for the tab, with the id generateEntryId gives the entry
\* (the per-tab counter).  The cap of 1000 entries is beyond MaxEntries.
AddCacheEntry ==
    /\ Len(tabCache) < MaxEntries
    /\ tabCache' = Append(tabCache, Len(tabCache) + 1)
    /\ UNCHANGED netResult

\* a || d for an optional number: d when a is undefined or 0
OrDefault(a, d) == IF a.given /\ a.val # 0 THEN a.val ELSE d

Min(a, b) == IF a <= b THEN a ELSE b
Max(a, b) == IF a >= b THEN a ELSE b

\* Array.prototype.slice(start, end) for start >= 0: a negative end counts
\* from the end of the array.
Slice(arr, start, end) ==
    LET from == Min(start, Len(arr))
        to == IF end < 0 THEN Max(Len(arr) + end, 0) ELSE Min(end, Len(arr))
    IN SubSeq(arr, from + 1, to)

\* execute of get_network_requests; the summary of an entry is its id.
GetNetworkRequests(limit, offset) ==
    LET requests == tabCache
        limitNum == Min(OrDefault(limit, 10), 20)
        offsetNum == OrDefault(offset, 0)
        limited == Slice(requests, offsetNum, offsetNum + limitNum)
    IN /\ netResult' =
             [called |-> TRUE, limit |-> limit, offset |-> offset,
              total |-> Len(requests), returned |-> Len(limited),
              hasMore |-> offsetNum + limitNum < Len(requests),
              requests |-> limited]
       /\ UNCHANGED tabCache

NextNet ==
    \/ AddCacheEntry /\ UNCHANGED <<cvars, svars, awaiting, outN>>
    \/ \E l \in {NoArg} \cup {Arg(n) : n \in Limits},
          o \in {NoArg} \cup {Arg(n) : n \in Offsets} :
          GetNetworkRequests(l, o) /\ UNCHANGED <<cvars, svars, awaiting, outN>>

SpecNet == Init /\ [][NextNet]_vars

\* ------------------------------------------- WebSocket relay server
\* wss.on("connection"): a closure with clientType = null.
Connect ==
    /\ Len(sockets) < MaxSockets
    /\ sockets' = Append(sockets,
          [clientType |-> "null", open |-> TRUE, received |-> <<>>])
    /\ lastMsg' = NoMsg
    /\ UNCHANGED clients

\* The message handler runs for socket w and a message of type mtype.
Handles(w, mtype) ==
    /\ w \in 1..Len(sockets) /\ sockets[w].open
    /\ \A x \in 1..Len(sockets) : Len(sockets[x].received) < MaxRelay
    /\ lastMsg' = [from |-> w, type |-> mtype]

\* client.send(m) for every client of the set to whose readyState is OPEN
SendTo(ss, to, m) ==
    [x \in 1..Len(ss) |->
        IF x \in to /\ ss[x].open
        THEN [ss[x] EXCEPT !.received = Append(@, m)]
        ELSE ss[x]]

\* message {type: "register", clientType}
Register(w, clientType) ==
    /\ Handles(w, "register")
    /\ clients' = MapSet(clients, clientType,
                     IF clientType \in DOMAIN clients
                     THEN clients[clientType] \cup {w} ELSE {w})
    /\ sockets' = SendTo([sockets EXCEPT ![w].clientType = clientType],
                         {w}, [from |-> 0, type |-> "registered"])

\* any other message that parses: chrome-data from a chrome client goes to
\* the vscode set, vscode-command from a vscode client to the chrome set.
Relay(w, mtype) ==
    /\ Handles(w, mtype)
    /\ LET to == IF mtype = "chrome-data"
                         /\ sockets[w].clientType = "chrome"
                         /\ "vscode" \in DOMAIN clients
                 THEN clients["vscode"]
                 ELSE IF mtype = "vscode-command"
                         /\ sockets[w].clientType = "vscode"
                         /\ "chrome" \in DOMAIN clients
                 THEN clients["chrome"]
                 ELSE {}
       IN sockets' = SendTo(sockets, to, [from |-> w, type |-> mtype])
    /\ UNCHANGED clients

\* a message JSON.parse rejects: the catch block answers with an error.
Invalid(w) ==
    /\ Handles(w, "invalid")
    /\ sockets' = SendTo(sockets, {w}, [from |-> 0, type |-> "error"])
    /\ UNCHANGED clients

\* ws.on("close")
Close(w) ==
    /\ w \in 1..Len(sockets) /\ sockets[w].open
    /\ sockets' = [sockets EXCEPT ![w].open = FALSE]
    /\ LET t == sockets[w].clientType
       IN clients' = IF t # "null" /\ t \in DOMAIN clients
                     THEN IF clients[t] \ {w} = {} THEN MapDelete(clients, t)
                          ELSE MapSet(clients, t, clients[t] \ {w})
                     ELSE clients
    /\ lastMsg' = NoMsg

NextRelay ==
    \/ Connect /\ UNCHANGED <<cvars, svars, awaiting, outR>>
    \/ \E w \in 1..MaxSockets, t \in ClientTypes :
          Register(w, t) /\ UNCHANGED <<cvars, svars, awaiting, outR>>
    \/ \E w \in 1..MaxSockets, m \in RelayTypes :
          Relay(w, m) /\ UNCHANGED <<cvars, svars, awaiting, outR>>
    \/ \E w \in 1..MaxSockets : Invalid(w) /\ UNCHANGED <<cvars, svars, awaiting, outR>>
    \/ \E w \in 1..MaxSockets : Close(w) /\ UNCHANGED <<cvars, svars, awaiting, outR>>

SpecRelay == Init /\ [][NextRelay]_vars

\* ------------------------------------------- model provider: parseSSE
\* Texts are lists of characters, the body is a list of bytes; an ASCII
\* byte is its character, the bytes C3 A9 are the character "é".  The
\* initial currentEvent "message" is written <<"m">>.
LF == "\n"
EventPrefix == <<"e", "v", "e", "n", "t", ":">>
DataPrefix == <<"d", "a", "t", "a", ":">>

\* What the server writes in one piece.
SsePieces ==
    {EventPrefix \o <<"C3", "A9">>, DataPrefix \o <<" ", "1">>,
     DataPrefix \o <<"{">>, <<LF>>}

\* decoder.decode(value, {stream: true}) with the bytes held back before
\* the call: <<characters, bytes held back after the call>>.  A lead byte
\* at the end of the input is held back; a lead byte without its
\* continuation and a continuation without a lead byte decode to U+FFFD.
RECURSIVE DecodeBytes(_)
DecodeBytes(bs) ==
    IF bs = <<>> THEN <<<<>>, <<>>>>
    ELSE IF bs[1] = "C3"
    THEN IF Len(bs) = 1 THEN <<<<>>, bs>>
         ELSE IF bs[2] = "A9"
         THEN LET d == DecodeBytes(SubSeq(bs, 3, Len(bs)))
              IN <<<<"é">> \o d[1], d[2]>>
         ELSE LET d == DecodeBytes(Tail(bs))
              IN <<<<"FFFD">> \o d[1], d[2]>>
    ELSE LET d == DecodeBytes(Tail(bs))
         IN <<<<IF bs[1] = "A9" THEN "FFFD" ELSE bs[1]>> \o d[1], d[2]>>

Decode(pending, value) == DecodeBytes(pending \o value)

\* text.split("\n"): the pieces between the line feeds, at least one.
RECURSIVE Split(_)
Split(text) ==
    IF \A i \in 1..Len(text) : text[i] # LF THEN <<text>>
    ELSE LET k == CHOOSE i \in 1..Len(text) :
                     text[i] = LF /\ \A j \in 1..(i - 1) : text[j] # LF
         IN <<SubSeq(text, 1, k - 1)>> \o Split(SubSeq(text, k + 1, Len(text)))

\* line.startsWith(prefix)
StartsWith(line, prefix) ==
    Len(line) >= Len(prefix) /\ SubSeq(line, 1, Len(prefix)) = prefix

\* text.trim()
WhiteSpace == {" ", "\r"}

RECURSIVE TrimStart(_)
TrimStart(text) ==
    IF text # <<>> /\ text[1] \in WhiteSpace THEN TrimStart(Tail(text))
    ELSE text

RECURSIVE TrimEnd(_)
TrimEnd(text) ==
    IF text # <<>> /\ Last(text) \in WhiteSpace THEN TrimEnd(Front(text))
    ELSE text

Trim(text) == TrimEnd(TrimStart(text))

\* JSON.parse(data) succeeds: of the texts the pieces can form, the numbers
\* 1, 11, ... are JSON.
JsonValue(data) == data # <<>> /\ \A i \in 1..Len(data) : data[i] = "1"

\* The body of the for loop over the complete lines, from the state
\* st = [event, out]: an event line sets currentEvent, a data line with
\* data that parses yields a record.
RECURSIVE ProcessLines(_, _)
ProcessLines(st, lines) ==
    IF lines = <<>> THEN st
    ELSE LET line == lines[1]
             next ==
                IF StartsWith(line, EventPrefix)
                THEN [st EXCEPT !.event = Trim(SubSeq(line, 7, Len(line)))]
                ELSE IF StartsWith(line, DataPrefix)
                THEN LET data == Trim(SubSeq(line, 6, Len(line)))
                     IN IF data # <<>> /\ JsonValue(data)
                        THEN [st EXCEPT !.out =
                                Append(@, [event |-> st.event, data |-> data])]
                        ELSE st
                ELSE st
         IN ProcessLines(next, Tail(lines))

\* Mutant: the partial trailing line is dropped.
RemainderDropped(lines) == <<>>

\* buffer = lines.pop() || ""
Remainder(lines) == Last(lines)

\* The server writes a piece to the response body.
ServerWrite(piece) ==
    /\ written < MaxPieces
    /\ written' = written + 1
    /\ inflight' = inflight \o piece
    /\ UNCHANGED <<wire, decoderPending, buffer, currentEvent, yielded,
                   lastCut>>

\* One iteration of the while loop: reader.read() returns the first n
\* bytes in flight, the text is decoded and split, the partial trailing
\* line is kept and the complete lines are processed.
Read(n) ==
    /\ n \in 1..Len(inflight)
    /\ LET value == SubSeq(inflight, 1, n)
           dec == Decode(decoderPending, value)
           lines == Split(buffer \o dec[1])
           st == ProcessLines([event |-> currentEvent, out |-> yielded],
                              Front(lines))
       IN /\ decoderPending' = dec[2]
          /\ buffer' = Remainder(lines)
          /\ currentEvent' = st.event
          /\ yielded' = st.out
          /\ wire' = wire \o value
          /\ inflight' = SubSeq(inflight, n + 1, Len(inflight))
    /\ lastCut' = (buffer # <<>>)
    /\ UNCHANGED written

NextSSE ==
    \/ \E piece \in SsePieces :
          ServerWrite(piece) /\ UNCHANGED <<cvars, svars, awaiting, outE>>
    \/ \E n \in 1..MaxRead : Read(n) /\ UNCHANGED <<cvars, svars, awaiting, outE>>

SpecSSE == Init /\ [][NextSSE]_vars

\* ------------------------------------------- provider: convertMessagesToAnthropic
\* A content part of a prompt message; text parts have id 0.
Part(type, id) == [type |-> type, id |-> id]

\* The messages a caller can put in the prompt: the roles of the AI SDK
\* prompt with text, tool-call and tool-result parts.  The SDK itself puts
\* tool results in messages of role "tool".
PromptMessages ==
    {[role |-> "system", content |-> <<Part("text", 0)>>],
     [role |-> "user", content |-> <<Part("text", 0)>>],
     [role |-> "assistant", content |-> <<Part("text", 0)>>]}
    \cup {[role |-> "assistant", content |-> <<Part("tool-call", i)>>] :
             i \in CallIds}
    \cup {[role |-> "assistant",
           content |-> <<Part("tool-call", i), Part("tool-result", i)>>] :
             i \in CallIds}
    \cup {[role |-> "tool", content |-> <<Part("tool-result", i)>>] :
             i \in CallIds}

\* The content blocks the loop over msg.content pushes for parts, given
\* the part types the role's branch converts.
RECURSIVE ConvertParts(_, _)
ConvertParts(parts, types) ==
    IF parts = <<>> THEN <<>>
    ELSE LET part == parts[1]
             block ==
                IF part.type \notin types THEN <<>>
                ELSE IF part.type = "text" THEN <<Part("text", 0)>>
                ELSE IF part.type = "tool-call"
                THEN <<Part("tool_use", part.id)>>
                ELSE <<Part("tool_result", part.id)>>
         IN block \o ConvertParts(Tail(parts), types)

\* convertMessagesToAnthropic(messages): system messages are skipped, user
\* messages keep their text parts, assistant messages their text,
\* tool-call and tool-result parts; a message of any other role is skipped.
RECURSIVE ConvertMessagesToAnthropic(_)
ConvertMessagesToAnthropic(messages) ==
    IF messages = <<>> THEN <<>>
    ELSE LET msg == messages[1]
             out ==
                IF msg.role = "user"
                THEN <<[role |-> "user",
                        content |-> ConvertParts(msg.content, {"text"})]>>
                ELSE IF msg.role = "assistant"
                THEN <<[role |-> "assistant",
                        content |-> ConvertParts(msg.content,
                            {"text", "tool-call", "tool-result"})]>>
                ELSE <<>>
         IN out \o ConvertMessagesToAnthropic(Tail(messages))

\* The caller adds a message to the prompt.
AddPromptMessage(msg) ==
    /\ Len(prompt) < MaxMsgs
    /\ prompt' = Append(prompt, msg)
    /\ outbound' = NoConversion

\* doStream converts options.prompt for the request body.
ConvertPrompt ==
    /\ ~outbound.done
    /\ outbound' = [done |-> TRUE,
                    messages |-> ConvertMessagesToAnthropic(prompt)]
    /\ UNCHANGED prompt

NextConvert ==
    \/ \E msg \in PromptMessages :
          AddPromptMessage(msg) /\ UNCHANGED <<cvars, svars, awaiting, outM>>
    \/ ConvertPrompt /\ UNCHANGED <<cvars, svars, awaiting, outM>>

SpecConvert == Init /\ [][NextConvert]_vars

\* ============================================== get_request_body_chunk
BodyChars == {"a", "b"}
Bodies == UNION {[1..n -> BodyChars] : n \in 0..MaxBody}
LengthArgs == {NoArg} \cup {Arg(n) : n \in {0 - 1, 0, 1, 2, 5000, 5001}}
OffsetArgs == {NoArg} \cup {Arg(n) : n \in 0..(MaxBody + 1)}

\* A destructuring default: it applies only to a missing argument.
Default(a, d) == IF a.given THEN a.val ELSE d

\* String.prototype.substring(start, end): both ends are clamped to
\* 0..length and swapped when start > end.
Substring(str, start, end) ==
    LET a == Max(0, Min(start, Len(str)))
        b == Max(0, Min(end, Len(str)))
    IN SubSeq(str, Min(a, b) + 1, Max(a, b))

\* The network listener caches a request with body b.
CacheBody(b) ==
    /\ ~chunkBody.found
    /\ chunkBody' = [found |-> TRUE, body |-> b]
    /\ UNCHANGED <<chunkResult, pages>>

\* What get_request_body_chunk returns for the arguments offsetArg and
\* lengthArg.
GetRequestBodyChunk(offsetArg, lengthArg) ==
    LET offset == Default(offsetArg, 0)
        length == Default(lengthArg, 2000)
        body == chunkBody.body
        maxLength == Min(length, 5000)
        chunk == Substring(body, offset, offset + maxLength)
        totalSize == Len(body)
        hasMore == offset + maxLength < totalSize
    IN IF ~chunkBody.found
       THEN [NoChunkCall EXCEPT !.error = "Request not found",
                                !.length = lengthArg]
       ELSE IF body = <<>>
       THEN [NoChunkCall EXCEPT !.error = "No body available",
                                !.length = lengthArg]
       ELSE [error |-> "", length |-> lengthArg, offset |-> offset,
             chunkSize |-> Len(chunk), totalSize |-> totalSize,
             hasMore |-> hasMore,
             nextOffset |-> IF hasMore
                            THEN [null |-> FALSE, val |-> offset + maxLength]
                            ELSE Null,
             chunk |-> chunk]

\* The caller reads the body page by page: the first call gives no offset,
\* every later call passes the nextOffset of the page before it and the same
\* length.
FetchPage(lengthArg) ==
    /\ Len(pages) < MaxPages
    /\ IF pages = <<>>
       THEN chunkResult' = GetRequestBodyChunk(NoArg, lengthArg)
       ELSE /\ Last(pages).hasMore
            /\ lengthArg = Last(pages).length
            /\ chunkResult' =
                  GetRequestBodyChunk(Arg(Last(pages).nextOffset.val), lengthArg)
    /\ pages' = Append(pages, chunkResult')
    /\ UNCHANGED chunkBody

\* A get_request_body_chunk call outside a pagination.
FetchAt(offsetArg, lengthArg) ==
    /\ pages = <<>>
    /\ chunkResult' = GetRequestBodyChunk(offsetArg, lengthArg)
    /\ UNCHANGED <<chunkBody, pages>>

NextBody ==
    \/ \E b \in Bodies : CacheBody(b) /\ UNCHANGED <<cvars, svars, awaiting, outB>>
    \/ \E l \in LengthArgs :
          FetchPage(l) /\ UNCHANGED <<cvars, svars, awaiting, outB>>
    \/ \E o \in OffsetArgs, l \in LengthArgs :
          FetchAt(o, l) /\ UNCHANGED <<cvars, svars, awaiting, outB>>

SpecBody == Init /\ [][NextBody]_vars

\* ================================================================ claims
Status(c) == conversations[c].status
Msgs(c) == conversations[c].messages

\* This step is a startConversation call for c.
Started(c) == Len(runs') = Len(runs) + 1 /\ Last(runs').conv = c

\* Run r returns in this step; Pushed(c) is the number of chunks pushed to
\* the record of c in this step.
Ends(r) == runs[r].pc = "stream" /\ runs'[r].pc = "done"
Pushed(c) == Len(emitted'[c]) - Len(emitted[c])

\* ---------------------------------------------------------------- C1
\* C1 (as stated): the status of a conversation starts at streaming and,
\* once it is completed, error or aborted, never changes again.
C1_StatusMonotone ==
    [][\A c \in ConvIds :
        /\ (~Has(c) /\ Has(c)') => Status(c)' = "streaming"
        /\ (Has(c) /\ Has(c)' /\ Status(c) \in Terminal) => Status(c)' = Status(c)
      ]_vars

\* C1 (amended): the status starts at streaming, and a terminal status goes
\* back to streaming only in a startConversation call for the same id; no
\* getUpdates, abort, cleanup or stream event sets it back to streaming.
C1_ResumeOnlyByStart ==
    [][\A c \in ConvIds :
        /\ (~Has(c) /\ Has(c)') => Status(c)' = "streaming"
        /\ (Has(c) /\ Has(c)' /\ Status(c) \in Terminal /\ Status(c)' = "streaming")
              => Started(c)
      ]_vars

\* A conversation whose first run has answered (its assistant message is in
\* the history) is streaming again in a second run.
C1_Witness ==
    \E c \in ConvIds :
        /\ Status(c) = "streaming"
        /\ Len(runs) = 2 /\ runs[1].pc = "done" /\ runs[2].pc = "stream"
        /\ \E i \in 1..Len(Msgs(c)) :
              Msgs(c)[i].role = "assistant" /\ Msgs(c)[i].run = 1

\* ---------------------------------------------------------------- C2
\* C2: while the status is completed, error or aborted no chunk is appended
\* to the buffer; the only chunk written outside streaming is the single
\* finish or error chunk written in the step that leaves streaming.
C2_NoAppendOutsideStreaming ==
    [][\A c \in ConvIds :
        (Has(c) /\ Has(c)' /\ Len(emitted'[c]) > Len(emitted[c])) =>
            /\ Status(c) = "streaming"
            /\ Status(c)' # "streaming" =>
                  /\ Len(emitted'[c]) = Len(emitted[c]) + 1
                  /\ Last(emitted'[c]).type \in {"finish", "error"}
      ]_vars

AllParts ==
    [type : {"text", "tool-call", "tool-result"},
     toolCallId : 0..MaxChunks]

\* Message m holds part q: one of its content lines is the rendering of q
\* and of no other part.
HoldsPart(m, q) ==
    \E j \in 1..Len(m.content) :
        /\ m.content[j] = ObjectToString(q)
        /\ \A x \in AllParts : ObjectToString(x) = m.content[j] => x = q

\* C4: for every tool-call part appended to the history, the same assistant
\* message holds the tool-result part with the same id.
C4_NoDanglingToolUse ==
    \A c \in ConvIds : \A i \in 1..Len(Msgs(c)) :
        \A k \in 1..Len(Msgs(c)[i].parts) :
            Msgs(c)[i].parts[k].type = "tool-call" =>
                HoldsPart(Msgs(c)[i],
                    [type |-> "tool-result",
                     toolCallId |-> Msgs(c)[i].parts[k].toolCallId])

\* ---------------------------------------------------------------- C5
\* C5 (as stated): the stored history never has more than
\* MAX_HISTORY_MESSAGES entries.
C5_HistoryBounded ==
    \A c \in ConvIds : Len(Msgs(c)) <= MAX_HISTORY_MESSAGES

IsSuffix(s, t) ==
    Len(s) <= Len(t) /\ s = SubSeq(t, Len(t) - Len(s) + 1, Len(t))

\* C5 (amended): the history a run is started with (the stored history plus
\* the new user message, as handed to the model) has at most
\* MAX_HISTORY_MESSAGES entries and is a suffix of the untrimmed one, so the
\* oldest entries are the ones dropped.
C5_BoundedWhenHanded ==
    [][\A c \in ConvIds :
        Started(c) =>
            /\ Len(Msgs(c)') <= MAX_HISTORY_MESSAGES
            /\ \E p \in Prompts :
                  IsSuffix(Msgs(c)', Append(Msgs(c), UserMessage(p, Len(runs'))))
      ]_vars

\* A run was started on a full history: the oldest entry, a user message,
\* is gone and the new user message is the tenth entry.
C5_Witness ==
    \E c \in ConvIds :
        /\ Len(Msgs(c)) = MAX_HISTORY_MESSAGES
        /\ Msgs(c)[1].role = "assistant"
        /\ Last(Msgs(c)).role = "user" /\ Last(Msgs(c)).run = 1

\* ---------------------------------------------------------------- C6
\* C6: the trim leaves a history of at most MAX_HISTORY_MESSAGES entries as
\* it is and keeps exactly the last MAX_HISTORY_MESSAGES entries, in their
\* order, of a longer one.
C6_TrimKeepsLast ==
    [][\A c \in ConvIds :
        Started(c) =>
            \E p \in Prompts :
                LET pre == Append(Msgs(c), UserMessage(p, Len(runs')))
                    post == Msgs(c)'
                IN /\ Len(pre) <= MAX_HISTORY_MESSAGES => post = pre
                   /\ Len(pre) > MAX_HISTORY_MESSAGES =>
                         /\ Len(post) = MAX_HISTORY_MESSAGES
                         /\ \A i \in 1..MAX_HISTORY_MESSAGES :
                               post[i] = pre[Len(pre) - MAX_HISTORY_MESSAGES + i]
      ]_vars

\* The second run was started on 11 stored entries (12 with its user
\* message): the two oldest are gone, the first run's exchange is kept.
C6_Witness ==
    \E c \in ConvIds :
        /\ Len(Msgs(c)) = MAX_HISTORY_MESSAGES
        /\ Msgs(c)[MAX_HISTORY_MESSAGES].run = 2
        /\ Msgs(c)[MAX_HISTORY_MESSAGES - 1].run = 1
        /\ Msgs(c)[MAX_HISTORY_MESSAGES - 2].run = 1
        /\ Msgs(c)[1].run = 0

\* ---------------------------------------------------------------- C7
ValidAlternation(ms) ==
    /\ Len(ms) > 0 => ms[1].role = "user"
    /\ \A i \in 1..(Len(ms) - 1) :
          ms[i].role = "user" => ms[i + 1].role = "assistant"

\* C7: the history handed to the model when a run is started begins with a
\* user message and has no two adjacent user messages.
C7_ValidAlternation ==
    [][\A c \in ConvIds : Started(c) => ValidAlternation(Msgs(c)')]_vars

\* ---------------------------------------------------------------- C8
\* C8: when a run ends in error and the last history entry is the user
\* message of that run, that entry is removed, the entries before it are
\* unchanged and no message of that run is left in the history.
C8_ErrorRemovesUserMessage ==
    [][\A r \in 1..Len(runs) :
        (Ends(r) /\ Status(runs[r].conv)' = "error") =>
            LET ms == Msgs(runs[r].conv)
            IN (Len(ms) > 0 /\ Last(ms).role = "user" /\ Last(ms).run = r) =>
                  /\ Msgs(runs[r].conv)' = Front(ms)
                  /\ \A i \in 1..Len(Msgs(runs[r].conv)') :
                        Msgs(runs[r].conv)'[i].run # r
      ]_vars

\* The first run pushed a text delta and ended in error, and the prompt was
\* submitted again (fullText is kept, nothing is pushed yet): the history
\* holds the user message of the second run and nothing else.
C8_Witness ==
    \E c \in ConvIds :
        /\ Len(runs) = 2 /\ runs[1].pc = "done" /\ runs[2].pc = "stream"
        /\ runs[1].conv = c /\ runs[2].conv = c
        /\ conversations[c].fullText = <<"a">>
        /\ emitted[c] = <<>>
        /\ Msgs(c) = <<UserMessage("p", 2)>>

\* ---------------------------------------------------------------- C9
\* C9: right after a getUpdates call that returned chunks, another
\* getUpdates call returns no chunk, and the same status and fullText.
C9_DrainThenEmpty ==
    [][\A c \in ConvIds :
        (Has(c) /\ Has(c)' /\ Len(delivered'[c]) > Len(delivered[c])) =>
            GetUpdatesResult(c)' =
                [chunks |-> <<>>,
                 status |-> GetUpdatesResult(c).status,
                 fullText |-> GetUpdatesResult(c).fullText]
      ]_vars

\* A poll has returned chunks and the buffer is empty.
C9_Witness ==
    \E c \in ConvIds :
        Has(c) /\ Len(delivered[c]) > 0 /\ conversations[c].chunks = <<>>

ToolChunks(log, type, id) ==
    {i \in 1..Len(log) : log[i].type = type /\ log[i].toolCallId = id}

\* The tool call ids the SDK has reported to run r, and those it has
\* reported a result for.
CallsOf(run) ==
    UNION {{st.toolCalls[i] : i \in 1..Len(st.toolCalls)} :
              st \in {run.steps[k] : k \in 1..Len(run.steps)} \cup {run.cur}}
ResultsOf(run) ==
    UNION {{st.toolResults[i] : i \in 1..Len(st.toolResults)} :
              st \in {run.steps[k] : k \in 1..Len(run.steps)} \cup {run.cur}}

\* Run r is the run the record was last started for.
Current(r) == Streaming(r) /\ conversations[runs[r].conv].abortController = r

C12_AbortCancelsScript ==
    [][\A c \in ConvIds : \A id \in DOMAIN awaiting :
          (/\ Has(c) /\ Status(c)' = "aborted"
           /\ conversations[c].abortController \notin aborted
           /\ conversations[c].abortController \in aborted'
           /\ id \in Outstanding(conversations[c].abortController)
           /\ awaiting[id] \in DOMAIN pendingExecutions) =>
              /\ awaiting[id] \notin DOMAIN pendingExecutions'
              /\ settled'[awaiting[id]] = <<"reject: cancelled">>
      ]_vars

\* ---------------------------------------------------------------- C13
\* The stream of run r has ended after a step in which the model called
\* tools and got their results: streamText goes on to another step after
\* such a step unless the step count has reached maxSteps.
AtStepCap(r) ==
    /\ Streaming(r)
    /\ runs[r].cur = EmptyStep
    /\ Len(runs[r].steps) >= 1
    /\ Last(runs[r].steps).toolCalls # <<>>

\* C13: a run that is stopped at the step cap while the model still calls
\* tools ends with status error and an error chunk.
C13_CapEndsInError ==
    [][\A r \in 1..Len(runs) :
          (AtStepCap(r) /\ Ends(r) /\ r \notin aborted) =>
              /\ Status(runs[r].conv)' = "error"
              /\ Last(emitted'[runs[r].conv]).type = "error"
      ]_vars

\* ---------------------------------------------------------------- C14
\* C14: when the tool of a run returns its third error result in a row, an
\* error chunk is pushed, the status becomes error and the run ends.
C14_LoopDetection ==
    [][\A r \in 1..Len(runs) :
          (Streaming(r) /\ runs[r].nfail = 2 /\ runs'[r].nfail = 3) =>
              /\ Status(runs[r].conv)' = "error"
              /\ Last(emitted'[runs[r].conv]).type = "error"
              /\ runs'[r].pc = "done"
      ]_vars

\* ---------------------------------------------------------------- C15
\* The pending executions of tab t.
PendingFor(t) ==
    {id \in DOMAIN pendingExecutions : pendingExecutions[id].tabId = t}

\* C15: a getPendingScript call for tab t returns the execution of t that
\* was enqueued earliest (the ids are given in enqueue order) among those
\* still pending, and null only when t has none, whatever the other tabs
\* hold.
C15_FifoPerTab ==
    [][lastReturn'.op = "poll" =>
          LET t == lastReturn'.arg
          IN IF handed' # handed
             THEN /\ lastReturn'.ret
                  /\ handed' = Append(handed, Last(handed'))
                  /\ Last(handed') \in PendingFor(t)
                  /\ \A id \in PendingFor(t) : Last(handed') <= id
             ELSE lastReturn' # lastReturn =>
                     ~lastReturn'.ret /\ PendingFor(t) = {}
      ]_vars

\* Two executions are pending for one tab and a poll of that tab has
\* returned the first.
C15_Witness ==
    /\ lastReturn.op = "poll" /\ lastReturn.ret
    /\ handed = <<1>>
    /\ {1, 2} \subseteq PendingFor(lastReturn.arg)

\* ---------------------------------------------------------------- C16
\* C16: no execution is returned by two getPendingScript calls.
C16_HandedOnce ==
    \A i, j \in 1..Len(handed) : handed[i] = handed[j] => i = j

\* ---------------------------------------------------------------- C17
\* C17: resolveScriptExecution / rejectScriptExecution for an id that is not
\* in the pending table (settled before, or never created) returns false
\* and changes neither the pending table, nor a queue, nor a timer, nor the
\* callbacks invoked for any execution.
C17_LateSettleIsNoOp ==
    [][(/\ lastReturn'.op \in {"resolve", "reject"}
        /\ lastReturn'.arg \notin DOMAIN pendingExecutions) =>
            /\ ~lastReturn'.ret
            /\ UNCHANGED <<pendingExecutions, executionQueue, timers, settled>>
      ]_vars

\* A resolve has arrived for an execution that had timed out.
C17_Witness ==
    /\ lastReturn = [op |-> "resolve", arg |-> 1, ret |-> FALSE]
    /\ idCounter >= 1
    /\ settled[1] = <<"reject: timeout">>

\* ---------------------------------------------------------------- C18
\* C18: for every execution created, at most one promise callback has been
\* invoked, exactly one once it has left the pending table, and none while
\* it is pending; its timer is armed exactly while it is pending.
C18_SettledOnce ==
    \A id \in 1..idCounter :
        /\ Len(settled[id]) <= 1
        /\ Len(settled[id]) = 1 <=> id \notin DOMAIN pendingExecutions
        /\ id \in DOMAIN timers <=> id \in DOMAIN pendingExecutions

\* Two executions have ended in two ways: one by the runner's result
\* after it was handed out, one by its timer.
C18_Witness ==
    /\ idCounter = 2
    /\ Len(handed) >= 1
    /\ \E i, j \in 1..2 :
          /\ settled[i] = <<"resolve">>
          /\ settled[j] = <<"reject: timeout">>

\* ---------------------------------------------------------------- C19
\* The ids in the queues.
Queued ==
    UNION {{executionQueue[t][i] : i \in 1..Len(executionQueue[t])} :
              t \in DOMAIN executionQueue}

SettledAndGone(id) ==
    /\ id <= Len(settled) /\ Len(settled[id]) = 1
    /\ id \notin DOMAIN pendingExecutions
    /\ id \notin Queued

\* C19: every execution that is pending is settled later on (the timer
\* fires if nothing else settles it), also when no poll and no result ever
\* comes; an execution that is settled is in neither the pending table nor
\* a queue.
C19_EventuallySettled ==
    /\ \A id \in 1..MaxExecs :
          (id \in DOMAIN pendingExecutions) ~> SettledAndGone(id)
    /\ [](\A id \in 1..idCounter : settled[id] # <<>> => SettledAndGone(id))

\* An execution that no poll has returned has been rejected by its timer.
C19_Witness ==
    /\ handed = <<>>
    /\ idCounter >= 1
    /\ settled[1] = <<"reject: timeout">>
    /\ SettledAndGone(1)

\* ---------------------------------------------------------------- C20
\* C20: clearTabExecutions / cancelAllForTab for tab T rejects every
\* execution pending for T, once, and removes it from the pending table,
\* removes T's queue and clears their timers; the pending executions, the
\* queues and the timers of the other tabs and the callbacks invoked for
\* every other execution are unchanged.
C20_CancelOnlyTarget ==
    [][lastReturn'.op \in {"clear", "cancel"} =>
          LET T == lastReturn'.arg
              cb == IF lastReturn'.op = "clear" THEN "reject: closed"
                    ELSE "reject: cancelled"
          IN /\ \A id \in PendingFor(T) :
                   /\ id \notin DOMAIN pendingExecutions'
                   /\ id \notin DOMAIN timers'
                   /\ settled'[id] = Append(settled[id], cb)
             /\ T \notin DOMAIN executionQueue'
             /\ DOMAIN pendingExecutions' = DOMAIN pendingExecutions \ PendingFor(T)
             /\ \A id \in DOMAIN pendingExecutions' :
                   /\ pendingExecutions'[id] = pendingExecutions[id]
                   /\ id \in DOMAIN timers' /\ timers'[id] = timers[id]
             /\ DOMAIN timers' = DOMAIN timers \ PendingFor(T)
             /\ \A id \in 1..idCounter :
                   id \notin PendingFor(T) => settled'[id] = settled[id]
             /\ DOMAIN executionQueue' = DOMAIN executionQueue \ {T}
             /\ \A t \in DOMAIN executionQueue' :
                   executionQueue'[t] = executionQueue[t]
      ]_vars

\* cancelAllForTab has rejected the execution of one tab and left the
\* execution of the other tab pending, with its timer and its queue.
C20_Witness ==
    /\ lastReturn.op = "cancel"
    /\ idCounter = 2
    /\ \E i, k \in 1..2 :
          /\ settled[i] = <<"reject: cancelled">>
          /\ k \in DOMAIN pendingExecutions /\ k \in DOMAIN timers
          /\ pendingExecutions[k].tabId # lastReturn.arg
          /\ executionQueue[pendingExecutions[k].tabId] = <<k>>

\* ---------------------------------------------------------------- C21
\* C21: when a tab is closed, every script execution pending for that tab
\* at the moment of the tab-removed event is rejected with the tab-closed
\* error and removed from the pending table in the handling of the event.
C21_TabCloseRejects ==
    [][lastReturn'.op = "tab-removed" =>
          \A id \in PendingFor(lastReturn'.arg) :
             /\ id \notin DOMAIN pendingExecutions'
             /\ settled'[id] = Append(settled[id], "reject: closed")
      ]_vars

\* ---------------------------------------------------------------- C22
\* The rejections a script execution can end with.
Failures ==
    {<<"reject: timeout">>, <<"reject: runner">>, <<"reject: closed">>,
     <<"reject: cancelled">>}

\* C22: when the promise an execute_javascript call awaits is rejected
\* (timeout, runner error, cancel or tab close), the call returns: a
\* tool-result chunk with the call's id and the error result is appended,
\* the status of the conversation is left as it is and the run stays in its
\* stream.
C22_FailedScriptRecoverable ==
    [][\A id \in DOMAIN awaiting :
          (id \notin DOMAIN awaiting' /\ settled[awaiting[id]] \in Failures) =>
             \E r \in 1..Len(runs) :
                LET c == runs[r].conv
                IN /\ id \in Outstanding(r)
                   /\ emitted'[c] = Append(emitted[c],
                         Chunk("tool-result", "error", id, Len(emitted[c]) + 1))
                   /\ conversations'[c].chunks =
                         Append(conversations[c].chunks, Last(emitted'[c]))
                   /\ conversations'[c].status = conversations[c].status
                   /\ runs'[r].pc = "stream"
      ]_vars

\* An execution timed out, its call returned the error result, and the run
\* went on to complete.
C22_Witness ==
    /\ Len(settled) >= 1 /\ settled[1] = <<"reject: timeout">>
    /\ \E c \in ConvIds :
          /\ conversations[c].status = "completed"
          /\ Len(emitted[c]) = 3
          /\ emitted[c][2].type = "tool-result" /\ emitted[c][2].data = "error"
          /\ emitted[c][3].type = "finish"

\* ---------------------------------------------------------------- C23
\* The concatenation of a list of fragments, in order.
RECURSIVE Concat(_)
Concat(fs) == IF fs = <<>> THEN <<>> ELSE fs[1] \o Concat(Tail(fs))

\* The content_block_stop of the tool_use block open at index i is consumed
\* in this step.
Stops(i) == i \in DOMAIN blocks /\ i \notin DOMAIN blocks'

\* C23: when the JSON accumulated for a tool_use block does not parse at its
\* content_block_stop, no tool-call part is enqueued for the block and one
\* error part, which names the block's index, is enqueued.
C23_ParseErrorSurfaced ==
    [][\A i \in Indices :
          (Stops(i) /\ ~JsonParses(Concat(blocks[i].frags))) =>
             /\ Len(enqueued') = Len(enqueued) + 1
             /\ SubSeq(enqueued', 1, Len(enqueued)) = enqueued
             /\ Last(enqueued').type = "error"
             /\ Last(enqueued').id = i
      ]_vars

\* ---------------------------------------------------------------- C24
\* C24: when the model calls a tool name that is not registered, a
\* tool-result chunk (the structured error result for that call) is appended
\* for the conversation, and the status of the conversation does not become
\* error in that step.
C24_UnknownToolIsToolResult ==
    [][\A r \in 1..Len(runs) :
          (Streaming(r) /\ runs'[r].nnotool = runs[r].nnotool + 1) =>
             LET c == runs[r].conv
             IN /\ Len(emitted'[c]) = Len(emitted[c]) + 1
                /\ Last(emitted'[c]).type = "tool-result"
                /\ conversations'[c].status # "error"
      ]_vars

\* ---------------------------------------------------------------- C25
\* C25: a get_network_requests call with limit = 0 and offset 0 returns an
\* empty requests list, returned = 0, and hasMore = (total > 0).
C25_LimitZeroEmpty ==
    (/\ netResult.called
     /\ netResult.limit = Arg(0)
     /\ OrDefault(netResult.offset, 0) = 0) =>
        /\ netResult.requests = <<>>
        /\ netResult.returned = 0
        /\ netResult.hasMore = (netResult.total > 0)

\* ---------------------------------------------------------------- C26
\* C26: for every integer limit and every offset >= 0 a get_network_requests
\* call returns at most 20 requests, they are the entries at the positions
\* offset .. offset + returned - 1 (counted from 0) of the tab's list, in
\* order, and hasMore is true exactly when the list has an entry at a
\* position from offset + returned on.
C26_WindowAndHasMore ==
    netResult.called =>
        LET off == OrDefault(netResult.offset, 0)
        IN /\ netResult.returned <= 20
           /\ netResult.returned = Len(netResult.requests)
           /\ netResult.requests =
                 SubSeq(tabCache, off + 1, off + netResult.returned)
           /\ netResult.hasMore = (off + netResult.returned < Len(tabCache))

\* ---------------------------------------------------------------- C27
\* C27: every script execution a tool call of a run has queued and is
\* awaiting is for the tab recorded in the run's conversation, whatever
\* tabId the startConversation call of the run passed.
C27_SameTarget ==
    \A r \in 1..Len(runs) : \A id \in Outstanding(r) \cap DOMAIN awaiting :
        awaiting[id] \in DOMAIN pendingExecutions =>
            pendingExecutions[awaiting[id]].tabId =
                conversations[runs[r].conv].tabId

\* ---------------------------------------------------------------- C28
\* The connections a relayed message of type m from connection w has to
\* reach: the open ones registered as the other type, when w is registered
\* as the type that sends m.
Receivers(w, m) ==
    LET src == IF m = "chrome-data" THEN "chrome" ELSE "vscode"
        dst == IF m = "chrome-data" THEN "vscode" ELSE "chrome"
    IN IF sockets[w].clientType = src
       THEN {x \in 1..Len(sockets) :
                sockets[x].open /\ sockets[x].clientType = dst}
       ELSE {}

\* C28: a chrome-data message from a connection registered as chrome is
\* sent to every open connection registered as vscode and to no other, a
\* vscode-command from a connection registered as vscode to every open
\* connection registered as chrome and to no other; from a connection that
\* is unregistered or registered as the other type it is sent to nobody.
C28_RelayByType ==
    [][lastMsg'.type \in {"chrome-data", "vscode-command"} =>
          \A x \in 1..Len(sockets) :
             sockets'[x].received =
                IF x \in Receivers(lastMsg'.from, lastMsg'.type)
                THEN Append(sockets[x].received, lastMsg')
                ELSE sockets[x].received
      ]_vars

\* ---------------------------------------------------------------- C29
\* What parseSSE yields when the bytes bs arrive in a single read.
OneRead(bs) ==
    LET dec == Decode(<<>>, bs)
        lines == Split(dec[1])
    IN ProcessLines([event |-> <<"m">>, out |-> <<>>], Front(lines)).out

\* C29: whatever the reads were that delivered the bytes read so far, the
\* records parseSSE has yielded are those it yields when the same bytes
\* arrive in a single read, in the same order.
C29_ReadBoundaryIndependent == yielded = OneRead(wire)

\* The body event:é LF data: 1 LF has been read; the read before the last
\* one ended inside a line, the last read completed that line, and the
\* record of the data line was yielded under the event name of the first
\* line.
C29_Witness ==
    /\ wire = EventPrefix \o <<"C3", "A9", LF>> \o DataPrefix \o <<" ", "1", LF>>
    /\ lastCut
    /\ yielded = <<[event |-> <<"é">>, data |-> <<"1">>]>>
    /\ buffer = <<>>

\* ---------------------------------------------------------------- C30
\* C30: at the content_block_stop of the tool_use block open at index i,
\* when the concatenation of the fragments the wire carried for index i
\* since the block's start parses, exactly one tool-call part is enqueued,
\* with the id and the name of the block's start and that concatenation as
\* args, and nothing is enqueued when it does not parse; no tool-call part
\* is enqueued in any other step.
C30_ReassemblyPerIndex ==
    [][/\ \A i \in Indices :
             Stops(i) =>
                LET args == Concat(blocks[i].frags)
                IN enqueued' =
                      IF JsonParses(args)
                      THEN Append(enqueued,
                              [type |-> "tool-call", id |-> blocks[i].id,
                               name |-> blocks[i].name, text |-> args])
                      ELSE enqueued
       /\ (/\ Len(enqueued') > Len(enqueued)
           /\ Last(enqueued').type = "tool-call") =>
              \E i \in Indices : Stops(i)
      ]_vars

\* Two blocks were started one after the other (ids 1 and 2), a fragment for
\* the second arrived while the first was still open, and the first was
\* stopped: its tool call has the two fragments of its own index only.
C30_Witness ==
    /\ nread = 6
    /\ enqueued = <<[type |-> "tool-call", id |-> 1, name |-> "f",
                     text |-> <<"{", "}">>]>>
    /\ \E i \in Indices :
          /\ i \in DOMAIN toolCalls
          /\ toolCalls[i] = [id |-> 2, name |-> "g", argsText |-> <<"}">>]

\* ---------------------------------------------------------------- C31
\* C31: the step that consumes a message_stop record closes the stream, and
\* once a message_stop record has been consumed no further record is
\* consumed and no further part is enqueued.
C31_StopTerminates ==
    [][/\ (~stopSeen /\ stopSeen') => streamState' = "closed"
       /\ stopSeen => (nread' = nread /\ enqueued' = enqueued)
      ]_vars

\* ---------------------------------------------------------------- C32
\* The ids of the parts of type t in the content of a message.
IdsOf(msg, t) ==
    {msg.content[i].id : i \in {k \in 1..Len(msg.content) :
                                   msg.content[k].type = t}}

\* Every tool call of the prompt has an id of its own and has its result
\* in some message of the prompt.
ResultsSupplied ==
    \A i \in 1..Len(prompt) : \A id \in IdsOf(prompt[i], "tool-call") :
        /\ \A k \in 1..Len(prompt) :
              id \in IdsOf(prompt[k], "tool-call") => k = i
        /\ \E k \in 1..Len(prompt) : id \in IdsOf(prompt[k], "tool-result")

\* C32: when the prompt carries a result for each of its tool calls, in
\* whatever message, every tool_use block of the converted list has a
\* tool_result block with its id in the same message.
C32_NoDanglingToolUse ==
    (outbound.done /\ ResultsSupplied) =>
        \A i \in 1..Len(outbound.messages) :
            IdsOf(outbound.messages[i], "tool_use")
                \subseteq IdsOf(outbound.messages[i], "tool_result")

\* ---------------------------------------------------------------- C33
\* C33: while the record of a conversation exists, chunks leave its buffer
\* only by being returned by getUpdates: in every step the buffer either
\* keeps what it held (and may gain chunks at its end), or it is emptied
\* and what it held is what a getUpdates call of this step returned.
C33_NoChunkLost ==
    [][\A c \in ConvIds :
          (Has(c) /\ conversations'[c].status # "absent") =>
             LET old == conversations[c].chunks
                 new == conversations'[c].chunks
             IN \/ /\ Len(new) >= Len(old)
                   /\ SubSeq(new, 1, Len(old)) = old
                \/ /\ new = <<>>
                   /\ delivered'[c] = delivered[c] \o old
      ]_vars

\* ---------------------------------------------------------------- C34
\* The runs of conversation c that are in their stream and whose signal is
\* not aborted.
ActiveRuns(c) ==
    {r \in 1..Len(runs) :
        runs[r].conv = c /\ runs[r].pc = "stream" /\ r \notin aborted}

\* C34: at any time at most one run is active for a conversation id.
C34_OneActiveRun == \A c \in ConvIds : Cardinality(ActiveRuns(c)) <= 1

\* ---------------------------------------------------------------- C35
\* C35: when a run whose signal was aborted leaves streamResponse while a
\* newer run of the same conversation is active, the status, the chunks and
\* the messages of the conversation are left as they are.
C35_LateEndLeavesNewerRun ==
    [][\A r \in 1..Len(runs) :
          (/\ runs[r].pc = "stream" /\ runs'[r].pc = "done"
           /\ r \in aborted
           /\ \E n \in (r + 1)..Len(runs) : n \in ActiveRuns(runs[r].conv)) =>
              LET c == runs[r].conv
              IN /\ conversations'[c].status = conversations[c].status
                 /\ conversations'[c].chunks = conversations[c].chunks
                 /\ conversations'[c].messages = conversations[c].messages
      ]_vars

\* ---------------------------------------------------------------- C36
\* The ids held by the queue of tab t.
QueuedIds(t) == {executionQueue[t][i] : i \in 1..Len(executionQueue[t])}

\* C36: the ids in the per-tab queues are the keys of the pending table;
\* every id is queued once, in the queue of its own tabId; no empty queue is
\* stored; so getPendingScript never meets an orphaned queue entry.
C36_QueuesMatchPending ==
    /\ UNION {QueuedIds(t) : t \in DOMAIN executionQueue} = DOMAIN pendingExecutions
    /\ \A t \in DOMAIN executionQueue :
          /\ executionQueue[t] # <<>>
          /\ Cardinality(QueuedIds(t)) = Len(executionQueue[t])
          /\ \A id \in QueuedIds(t) :
                id \in DOMAIN pendingExecutions => pendingExecutions[id].tabId = t
          /\ SkipOrphans(executionQueue[t]) = executionQueue[t]

\* Two executions were queued on tab 1, the first one timed out and the
\* second one is the only entry left.
C36_Witness ==
    /\ idCounter = 2
    /\ settled[1] = <<"reject: timeout">>
    /\ DOMAIN pendingExecutions = {2}
    /\ DOMAIN executionQueue = {1}
    /\ executionQueue[1] = <<2>>

\* ---------------------------------------------------------------- C37
\* The chunks of the pages ps, concatenated.
RECURSIVE Chunks(_)
Chunks(ps) == IF ps = <<>> THEN <<>> ELSE ps[1].chunk \o Chunks(Tail(ps))

\* C37: in a pagination with a fixed length every page with hasMore has a
\* nextOffset beyond its offset; the page without hasMore has nextOffset
\* null and the chunks up to it make up the body; a call at offset =
\* totalSize returns chunkSize 0, hasMore false and nextOffset null.
C37_PaginationReassembles ==
    /\ \A i \in 1..Len(pages) :
          pages[i].error = "" =>
             IF pages[i].hasMore
             THEN /\ ~pages[i].nextOffset.null
                  /\ pages[i].nextOffset.val > pages[i].offset
             ELSE /\ pages[i].nextOffset.null
                  /\ Chunks(SubSeq(pages, 1, i)) = chunkBody.body
    /\ (chunkResult.error = "" /\ chunkResult.offset = chunkResult.totalSize) =>
          /\ chunkResult.chunkSize = 0
          /\ ~chunkResult.hasMore
          /\ chunkResult.nextOffset.null

\* ---------------------------------------------------------------- C38
\* The data of the text-delta chunks among chs, in order.
RECURSIVE TextOf(_)
TextOf(chs) ==
    IF chs = <<>> THEN <<>>
    ELSE (IF chs[1].type = "text-delta" THEN <<chs[1].data>> ELSE <<>>)
         \o TextOf(Tail(chs))

\* The chunks appended to the buffer of c in this step.
AppendedChunks(c) ==
    LET old == conversations[c].chunks
        new == conversations'[c].chunks
    IN IF Len(new) > Len(old) /\ SubSeq(new, 1, Len(old)) = old
       THEN SubSeq(new, Len(old) + 1, Len(new))
       ELSE <<>>

\* C38: fullText is empty when the conversation is created and from then on
\* every step extends it by exactly the data of the text-delta chunks the
\* step appends (so getUpdates, abort and startConversation on an existing
\* id leave it alone); getUpdates reports it as it is.
C38_FullTextIsDeltas ==
    [][\A c \in ConvIds :
          /\ (~Has(c) /\ conversations'[c].status # "absent") =>
                conversations'[c].fullText = TextOf(conversations'[c].chunks)
          /\ (Has(c) /\ conversations'[c].status # "absent") =>
                /\ conversations'[c].fullText =
                      conversations[c].fullText \o TextOf(AppendedChunks(c))
                /\ GetUpdatesResult(c).fullText = conversations[c].fullText
      ]_vars

\* The conversation was started twice and each run has pushed one text
\* delta: fullText holds both, the buffer only the second.
C38_Witness ==
    /\ Len(runs) = 2
    /\ runs[1].conv = "c1" /\ runs[2].conv = "c1"
    /\ Len(conversations["c1"].fullText) = 2
    /\ Len(conversations["c1"].chunks) = 1
    /\ Len(emitted["c1"]) = 1

\* ---------------------------------------------------------------- C39
\* C39: every requestId listed under an index key is a pending request with
\* the url and tabId of that key, every pending request is listed under its
\* own key, and no index key maps to an empty set.
C39_IndexConsistent ==
    /\ \A k \in DOMAIN urlIndex :
          /\ urlIndex[k] # {}
          /\ \A id \in urlIndex[k] :
                /\ id \in DOMAIN pendingRequests
                /\ GetIndexKey(pendingRequests[id].url,
                               pendingRequests[id].tabId) = k
    /\ \A id \in DOMAIN pendingRequests :
          LET k == GetIndexKey(pendingRequests[id].url, pendingRequests[id].tabId)
          IN k \in DOMAIN urlIndex /\ id \in urlIndex[k]

====
